---- MODULE Spec2Model ----
(***************************************************************************)
(* Model of the "Mirror Mesh" operator (mesh_mirror_script.py): the        *)
(* operator's execute, the per-mesh mirrorMesh engine (seed search,        *)
(* propagation, non-intersecting sweep) and its geometry kernels.          *)
(*                                                                         *)
(* Numbers.  Python floats are modelled by exact rationals.  Coordinates   *)
(* and normals of the meshes of the model are integers (unit, axis-aligned *)
(* normals), so every product is an integer; a barycentric weight is kept  *)
(* as a numerator over the common denominator d00*d11 - d01*d01; the bias  *)
(* is kept in units of 1/BiasDen.  A float division by zero raises         *)
(* ZeroDivisionError in Python: the kernels return the record Raise.       *)
(***************************************************************************)
EXTENDS Integers, Sequences, FiniteSets, TLC

\* ---------------------------------------------------------------- bounds
\* Largest number of vertices of a source mesh.
MaxVerts == 3
\* Largest number of invocations of the operator in one behaviour.
MaxInvocations == 2
\* Largest x and y coordinate of a vertex handed to the geometry kernels.
MaxGrid == 3

\* ------------------------------------------------------ program constants
largeFloat == 10000000
\* 0.0001 = 1 / BiasDen: the default of MirrorMesh.bias and the minimum of
\* biasValue; a bias b stands for the float b / BiasDen.
BiasDen == 10000
\* biasValue: FloatProperty(default=0.0001, min=0.0001, max=0.1)
BiasValues == {1, 50, 1000}

\* ---------------------------------------------------------------- vectors
Abs(x) == IF x < 0 THEN -x ELSE x
Dot(a, b) == a[1] * b[1] + a[2] * b[2] + a[3] * b[3]
VAdd(a, b) == <<a[1] + b[1], a[2] + b[2], a[3] + b[3]>>
VSub(a, b) == <<a[1] - b[1], a[2] - b[2], a[3] - b[3]>>
VScale(k, a) == <<k * a[1], k * a[2], k * a[3]>>
\* a / q for a float quotient that is an integer in the model (q # 0).
Quot(a, q) == IF q > 0 THEN a \div q ELSE (-a) \div (-q)
VQuot(a, q) == <<Quot(a[1], q), Quot(a[2], q), Quot(a[3], q)>>

\* Vector.length, as far as the comparisons of queueConnectedVerts need it:
\* big says that the length is >= largeFloat, sq is the squared length of a
\* short vector.  (A vector of the model either has a component of magnitude
\* >= largeFloat or has small components only.)
Length(d) ==
  LET isBig == \E k \in 1..3 : Abs(d[k]) >= largeFloat
  IN [big |-> isBig, sq |-> IF isBig THEN 0 ELSE Dot(d, d)]
\* a < b for two lengths, b never longer than largeFloat.
LenLess(a, b) == ~a.big /\ (b.big \/ a.sq < b.sq)

\* num/den > bnum/bden for den # 0, bden > 0, without forming num * bden.
RatGreater(num, den, bnum, bden) ==
  LET n == IF den > 0 THEN num ELSE -num
      d == Abs(den)
  IN n > ((bnum * d) \div bden)

\* ------------------------------------------------------------ mirror mesh
\* A triangle of the mirror mesh: the ids, positions and normals of its three
\* vertices and its face normal (BMFace.verts, BMVert.co, BMVert.normal,
\* BMFace.normal after normal_update).
Tri(idx, ids, cos, vns, n) ==
  [index |-> idx, v |-> ids, co |-> cos, vn |-> vns, normal |-> n]
Up == <<0, 0, 1>>
FlatTri(idx, ids, cos) == Tri(idx, ids, cos, <<Up, Up, Up>>, Up)

\* The mirror meshes the active object can hold (mirrorMesh.faces, in order).
\* 1: two triangles sharing an edge, covering the square [0,2]x[0,2] at z=0
\* 2: two parallel triangles, at z=0 and z=3, sharing nothing
\* 3: a triangle and a zero-area triangle on its long edge (face normal 0)
MirrorLib ==
  << << FlatTri(1, <<1, 2, 3>>, << <<0,0,0>>, <<2,0,0>>, <<0,2,0>> >>),
        FlatTri(2, <<2, 4, 3>>, << <<2,0,0>>, <<2,2,0>>, <<0,2,0>> >>) >>,
     << FlatTri(1, <<1, 2, 3>>, << <<0,0,0>>, <<2,0,0>>, <<0,2,0>> >>),
        FlatTri(2, <<5, 6, 7>>, << <<0,0,3>>, <<2,0,3>>, <<0,2,3>> >>) >>,
     << FlatTri(1, <<1, 2, 3>>, << <<0,0,0>>, <<2,0,0>>, <<0,2,0>> >>),
        Tri(2, <<2, 5, 3>>, << <<2,0,0>>, <<1,1,0>>, <<0,2,0>> >>,
            <<Up, <<0,0,0>>, Up>>, <<0,0,0>>) >> >>

Down == <<0, 0, -1>>
\* A mirror mesh of five triangles in the plane z=0.  Faces 1 and 2 make the
\* square [0,2]x[0,2], face 3 lies right of it and face 4 above it; face 5 is
\* a third face on the edge between faces 2 and 3, folded back over faces 1
\* and 2 and wound the other way, so that its normal points down.
FoldedMesh ==
  << FlatTri(1, <<1, 2, 3>>, << <<0,0,0>>, <<2,0,0>>, <<0,2,0>> >>),
     FlatTri(2, <<2, 4, 3>>, << <<2,0,0>>, <<2,2,0>>, <<0,2,0>> >>),
     FlatTri(3, <<2, 5, 4>>, << <<2,0,0>>, <<4,0,0>>, <<2,2,0>> >>),
     FlatTri(4, <<3, 4, 7>>, << <<0,2,0>>, <<2,2,0>>, <<0,4,0>> >>),
     Tri(5, <<4, 2, 6>>, << <<2,2,0>>, <<2,0,0>>, <<0,1,0>> >>,
         <<Up, Up, Down>>, Down) >>
\* The mirror meshes by the number mirrorId of the active object
MirrorMeshes == MirrorLib \o <<FoldedMesh>>

\* Every face of the mesh lies in the plane z=0 with normal Up and vertex
\* normals Up: the mesh is a flat mirror plane.
FlatMirror(faces) ==
  \A f \in 1..Len(faces) :
    /\ faces[f].normal = Up
    /\ \A k \in 1..3 : faces[f].vn[k] = Up /\ faces[f].co[k][3] = 0

\* ------------------------------------------------------------------ state
VARIABLES
  \* the operator's properties (self.<name>), as set in the panel
  mirrorSmooth, cullBackfaces, onlyIntersectingVert, intersectClosest, biasValue,
  \* the class attributes of MirrorMesh, shared by every invocation
  bias, biasOne, biasNeg, smoothed, cull, closestOnly, onlyIntersecting,
  \* the scene: the active object, the mirror mesh it holds, the selected
  \* objects, the objects execute created, the original source objects
  \* (origin[k] is the source object that selected[k] is, or is a copy of)
  ob_act, mirrorId, selected, created, source, origin,
  \* execute: position, index of the selected object at hand, its bmesh copy
  \* (vertex positions), the count mirrorMesh returned, the reports made,
  \* the number of invocations so far
  pc, obIdx, mesh, nonMCount, reports, invocations,
  \* mirrorMesh: the search data, the loop index, the count, and
  \* mirrorConnected's queue, its intersectionTest argument and its caller
  searchData, i, nonMirrorCount, vertQueue, intersectionTest, caller,
  \* the kernels applied on their own: the input and the result
  kIn, kOut

\* The projection engine (proj_data.py)
VARIABLES
  \* Setting's class attributes; the active object given as target
  setting, target,
  \* ProjectionData: what generateTargetData has built, the objects given to
  \* generateSourceData, meshList, the reports made through self.warning,
  \* the objects set by setNamedMesh
  built, ob_list, meshList, warning, obOut,
  \* position, the loop index of generateSourceData, calculateBounds at work
  \* on one object, the loop index and the number of runs of projectMeshData
  ppc, obI, bnd, mI, runs

propVars == <<mirrorSmooth, cullBackfaces, onlyIntersectingVert, intersectClosest,
              biasValue>>
classVars == <<bias, biasOne, biasNeg, smoothed, cull, closestOnly, onlyIntersecting>>
sceneVars == <<ob_act, mirrorId, selected, created, source, origin>>
execVars == <<pc, obIdx, mesh, nonMCount, reports, invocations>>
engineVars == <<searchData, i, nonMirrorCount, vertQueue, intersectionTest, caller>>
kernelVars == <<kIn, kOut>>
projVars == <<setting, target, built, ob_list, meshList, warning, obOut,
              ppc, obI, bnd, mI, runs>>
mirrorVars == <<propVars, classVars, sceneVars, execVars, engineVars, kIn, kOut>>
vars == <<propVars, classVars, sceneVars, execVars, engineVars, kIn, kOut,
          projVars>>

\* ---------------------------------------------------------------- kernels
\* MirrorData(mirrorTri, intersected, t, u, v, w); None; an exception raised
None == [kind |-> "none"]
\* The projection engine before any of its operations
ProjIdle ==
  /\ setting = None /\ target = None /\ built = {} /\ ob_list = <<>>
  /\ meshList = <<>> /\ warning = <<>> /\ obOut = <<>>
  /\ ppc = "off" /\ obI = 0 /\ bnd = None /\ mI = 0 /\ runs = 0
Raise == [kind |-> "raise"]
MirrorData(mTri, hit, t, u, v, w, den) ==
  [kind |-> "data", mirrorTri |-> mTri, intersected |-> hit, t |-> t,
   u |-> u, v |-> v, w |-> w, den |-> den]
IsData(m) == m.kind = "data"
Hit(m) == m.kind = "data" /\ m.intersected

\* u > MirrorMesh.biasNeg for the weight num/den
AboveBiasNeg(num, den) == RatGreater(num, den, biasNeg, BiasDen)

\* A variant of line 307 that takes a weight equal to biasNeg as inside
triWeightsInclusive(mTri, t, den, v, w) ==
  IF den = 0 THEN Raise
  ELSE MirrorData(mTri,
                  /\ ~RatGreater(-(den - v - w), den, -biasNeg, BiasDen)
                  /\ ~RatGreater(-v, den, -biasNeg, BiasDen)
                  /\ ~RatGreater(-w, den, -biasNeg, BiasDen),
                  t, den - v - w, v, w, den)
\* triIntersection, lines 302-307: the weights from the dot products
triWeights(mTri, t, den, v, w) ==
  IF den = 0 THEN Raise
  ELSE MirrorData(mTri,
                  AboveBiasNeg(den - v - w, den) /\ AboveBiasNeg(v, den)
                    /\ AboveBiasNeg(w, den),
                  t, den - v - w, v, w, den)
\* triIntersection, lines 296-300
triDots(mTri, t, d00, d01, d11, d20, d21) ==
  triWeights(mTri, t, d00 * d11 - d01 * d01, d11 * d20 - d01 * d21,
             d00 * d21 - d01 * d20)
\* triIntersection, lines 292-294
triEdges(mTri, t, v0, v1, v2) ==
  triDots(mTri, t, Dot(v0, v0), Dot(v0, v1), Dot(v1, v1), Dot(v2, v0), Dot(v2, v1))
\* triIntersection, lines 288-290: the point along the normal of vertex k
triPoint(mTri, t, k) ==
  VAdd(VQuot(VScale(t, mTri.vn[k]), Dot(mTri.normal, mTri.vn[k])), mTri.co[k])
triPoints(vertCo, mTri, t, p0, p1, p2) ==
  triEdges(mTri, t, VSub(p1, p0), VSub(p2, p0), VSub(vertCo, p0))
\* triIntersection, lines 284-290, t being the distance of line 281
triAt(vertCo, mTri, t) ==
  IF cull /\ t < 0 THEN None
  ELSE IF \E k \in 1..3 : Dot(mTri.normal, mTri.vn[k]) = 0 THEN Raise
  ELSE triPoints(vertCo, mTri, t, triPoint(mTri, t, 1), triPoint(mTri, t, 2),
                 triPoint(mTri, t, 3))
triIntersection(vertCo, mTri) ==
  triAt(vertCo, mTri, Dot(mTri.normal, VSub(vertCo, mTri.co[1])))

\* A vector result, as opposed to Raise
Vec(a) == [kind |-> "vec", vec |-> a]

\* A variant of line 432 that moves the vertex onto the plane, not across it
calcFlatMirrorVectorOnto(mData) == Vec(VScale(-1 * mData.t, mData.mirrorTri.normal))
\* MirrorData.calcFlatMirrorVector
calcFlatMirrorVector(mData) == Vec(VScale(-2 * mData.t, mData.mirrorTri.normal))

\* MirrorData.calcSmoothMirrorVector: norm is the weighted sum of the vertex
\* normals (here times den, which cancels in the quotient); Raise when the
\* face normal is perpendicular to it.
smoothVector(t, n, norm) ==
  IF Dot(n, norm) = 0 THEN Raise
  ELSE Vec(VQuot(VScale(-2 * t, norm), Dot(n, norm)))
calcSmoothMirrorVector(mData) ==
  smoothVector(mData.t, mData.mirrorTri.normal,
               VAdd(VAdd(VScale(mData.u, mData.mirrorTri.vn[1]),
                         VScale(mData.v, mData.mirrorTri.vn[2])),
                    VScale(mData.w, mData.mirrorTri.vn[3])))

\* MirrorMesh.mirrorVert: the new vert.co, or Raise
addVector(co, mVec) ==
  IF mVec.kind = "raise" THEN Raise ELSE Vec(VAdd(co, mVec.vec))
mirrorVert(co, mirrorData, forceFlatMirror) ==
  addVector(co, IF ~smoothed \/ forceFlatMirror
                THEN calcFlatMirrorVector(mirrorData)
                ELSE calcSmoothMirrorVector(mirrorData))

\* A variant of line 408 in which a record of equal distance replaces the old
setClosestMirrorOrEqual(old, mirrorData) ==
  IF old.kind = "none" \/ mirrorData.t <= old.t THEN mirrorData ELSE old
\* SearchData.setClosestMirror: the new _mirrorData
setClosestMirror(old, mirrorData) ==
  IF old.kind = "none" \/ mirrorData.t < old.t THEN mirrorData ELSE old

\* MirrorMesh.findClosestTri from face k on: the vertex's _mirrorData after
\* the scan (old before it), or Raise
RECURSIVE findClosestFrom(_, _, _, _)
closestWith(vertCo, faces, k, old, mDat) ==
  IF mDat.kind = "raise" THEN Raise
  ELSE findClosestFrom(vertCo, faces, k + 1,
                       IF Hit(mDat) THEN setClosestMirror(old, mDat) ELSE old)
findClosestFrom(vertCo, faces, k, old) ==
  IF k > Len(faces) THEN old
  ELSE closestWith(vertCo, faces, k, old, triIntersection(vertCo, faces[k]))
findClosestTri(vertCo, faces, old) == findClosestFrom(vertCo, faces, 1, old)

\* MirrorMesh.findDistance: the record set for the vertex
findDistance(vertCo, mTri) ==
  MirrorData(mTri, FALSE, Dot(mTri.normal, VSub(vertCo, mTri.co[1])), 0, 0, 0, 1)

\* MirrorMesh.queueConnectedFaces: the faces it queues, in order.  cand is
\* the list of (edge, linked face) pairs still to visit, tagged the set of
\* the indices of the faces whose tag is set.
FaceEdges(face) == << {face.v[1], face.v[2]}, {face.v[2], face.v[3]},
                      {face.v[3], face.v[1]} >>
\* edge.link_faces, in the order of the mesh's faces
LinkFaces(edge, faces) ==
  SelectSeq([k \in 1..Len(faces) |-> k],
            LAMBDA k : edge \subseteq {faces[k].v[1], faces[k].v[2], faces[k].v[3]})
RECURSIVE queueFacesFrom(_, _)
queueFacesFrom(cand, tagged) ==
  IF cand = <<>> THEN <<>>
  ELSE IF Head(cand) \in tagged THEN queueFacesFrom(Tail(cand), tagged)
  ELSE <<Head(cand)>> \o queueFacesFrom(Tail(cand), tagged \cup {Head(cand)})
queueConnectedFaces(face, faces, tagged) ==
  queueFacesFrom(LinkFaces(FaceEdges(face)[1], faces)
                   \o LinkFaces(FaceEdges(face)[2], faces)
                   \o LinkFaces(FaceEdges(face)[3], faces), tagged)

\* MirrorMesh.findFirstTri's loop: the record set for the vertex (None when
\* the queue runs empty), or Raise.
Range(s) == {s[k] : k \in 1..Len(s)}
RECURSIVE findFirstLoop(_, _, _, _)
firstWith(vertCo, faces, faceQueue, tagged, mDat, more) ==
  IF mDat.kind = "raise" THEN Raise
  ELSE IF Hit(mDat) THEN mDat
  ELSE findFirstLoop(vertCo, faces, Tail(faceQueue) \o more, tagged \cup Range(more))
findFirstLoop(vertCo, faces, faceQueue, tagged) ==
  IF faceQueue = <<>> THEN None
  ELSE firstWith(vertCo, faces, faceQueue, tagged,
                 triIntersection(vertCo, faces[Head(faceQueue)]),
                 queueConnectedFaces(faces[Head(faceQueue)], faces, tagged))
findFirstTri(vertCo, lastMFace, faces) ==
  findFirstLoop(vertCo, faces, <<lastMFace.index>>, {lastMFace.index})

\* ------------------------------------------------------------ search data
\* SearchData(): _closeDistance = largeFloat, _closeVert = None (0),
\* _mirrorData = None
NewSearchData ==
  [closeDistance |-> [big |-> TRUE, sq |-> 0], closeVert |-> 0, mirrorData |-> None]
mirrored(d) == d.mirrorData.kind # "none"
notMirrored(d) == d.mirrorData.kind = "none"

\* vert.link_edges: the other ends of the edges at vertex v, in edge order
RECURSIVE LinkedVerts(_, _)
LinkedVerts(v, edges) ==
  IF edges = <<>> THEN <<>>
  ELSE (IF Head(edges)[1] = v THEN <<Head(edges)[2]>>
        ELSE IF Head(edges)[2] = v THEN <<Head(edges)[1]>>
        ELSE <<>>) \o LinkedVerts(v, Tail(edges))

\* MirrorMesh.queueConnectedVerts, lines 318-321: the search data of the
\* connected vertex, vert being at the given distance
closerVert(data, vert, distance) ==
  IF LenLess(distance, data.closeDistance)
  THEN [data EXCEPT !.closeDistance = distance, !.closeVert = vert]
  ELSE data
\* MirrorMesh.queueConnectedVerts over the linked vertices ns of vertex v:
\* the new search data and the new queue
RECURSIVE queueVertsFrom(_, _, _, _, _)
queueVertsFrom(v, ns, co, sd, queue) ==
  IF ns = <<>> THEN [sd |-> sd, queue |-> queue]
  ELSE IF notMirrored(sd[Head(ns)])
  THEN queueVertsFrom(v, Tail(ns), co,
                      [sd EXCEPT ![Head(ns)] =
                         closerVert(@, v, Length(VSub(co[v], co[Head(ns)])))],
                      Append(queue, Head(ns)))
  ELSE queueVertsFrom(v, Tail(ns), co, sd, queue)
queueConnectedVerts(v, edges, co, sd, queue) ==
  queueVertsFrom(v, LinkedVerts(v, edges), co, sd, queue)

\* ----------------------------------------------------------------- inputs
\* Positions of source vertices: above the first triangle of every mirror
\* mesh, above the second triangle of mesh 1 only, beside every triangle,
\* below the first triangle, and at largeFloat or more from the others.
Points == { <<0, 0, 1>>, <<2, 2, 1>>, <<3, 2, 1>>, <<0, 0, -1>>,
            <<largeFloat + 3, 0, 1>> }
\* The edges of a source mesh of n vertices: any of the edges <<k, k+1>>.
PathEdges(n) == { <<k, k + 1>> : k \in 1..(n - 1) }
\* The edges of a set in the order of their first ends
RECURSIVE SeqOfSet(_)
SeqOfSet(S) ==
  IF S = {} THEN <<>>
  ELSE LET e == CHOOSE x \in S : \A y \in S : x[1] <= y[1]
       IN <<e>> \o SeqOfSet(S \ {e})
\* Source meshes: 1..MaxVerts vertices at distinct points.
MeshesOver(P) ==
  UNION { { [co |-> c, edges |-> SeqOfSet(E)] :
              c \in { f \in [1..n -> P] :
                        \A a, b \in 1..n : a # b => f[a] # f[b] },
              E \in SUBSET PathEdges(n) } : n \in 1..MaxVerts }
SourceMeshes == MeshesOver(Points)
\* An object of the scene: its type, whether it is the active object, and
\* its mesh data in world space (ob.data under ob.matrix_world)
MeshObject(m) == [type |-> "MESH", active |-> FALSE, co |-> m.co, edges |-> m.edges]
OneVertex == [co |-> << <<0, 0, 1>> >>, edges |-> <<>>]
\* The active object itself when selected, or a selected lamp or empty
OtherObjects(act) ==
  { [type |-> "EMPTY", active |-> FALSE, co |-> <<>>, edges |-> <<>>] }
  \cup (IF act = "NONE" THEN {}
        ELSE { [type |-> act, active |-> TRUE, co |-> <<>>, edges |-> <<>>] })

\* The mirror mesh execute builds from the active object (mMesh.faces)
mMeshFaces == MirrorMeshes[mirrorId]

Report(level, what, n) == [level |-> level, what |-> what, n |-> n]

\* The class attributes as the class body sets them (lines 67-74)
ClassDefaults ==
  /\ bias = 1
  /\ biasOne = BiasDen + 1
  /\ biasNeg = -1
  /\ smoothed = TRUE
  /\ cull = TRUE
  /\ closestOnly = FALSE
  /\ onlyIntersecting = TRUE

\* No invocation was made yet.
IdleState ==
  /\ obIdx = 0
  /\ mesh = <<>>
  /\ nonMCount = 0
  /\ reports = <<>>
  /\ invocations = 0
  /\ searchData = <<>>
  /\ i = 0
  /\ nonMirrorCount = 0
  /\ vertQueue = <<>>
  /\ intersectionTest = TRUE
  /\ caller = "seed"
  /\ created = <<>>

\* One source mesh selected, a mesh active: every mode, every source mesh.
InitEngine ==
  /\ mirrorSmooth \in BOOLEAN
  /\ cullBackfaces \in BOOLEAN
  /\ onlyIntersectingVert \in BOOLEAN
  /\ intersectClosest \in BOOLEAN
  /\ biasValue = 1
  /\ ob_act = "MESH"
  /\ mirrorId \in 1..Len(MirrorLib)
  /\ \E m \in SourceMeshes : source = <<MeshObject(m)>>
  /\ selected = source
  /\ origin = <<1>>

\* Every kind of active object, every biasValue, other objects selected.
InitScene ==
  /\ mirrorSmooth = FALSE
  /\ cullBackfaces = FALSE
  /\ onlyIntersectingVert \in BOOLEAN
  /\ intersectClosest = FALSE
  /\ biasValue \in BiasValues
  /\ ob_act \in {"NONE", "EMPTY", "MESH"}
  /\ mirrorId = 1
  /\ \E o \in OtherObjects(ob_act) : source = <<o, MeshObject(OneVertex)>>
  /\ selected = source
  /\ origin = <<1, 2>>

Init ==
  /\ ClassDefaults
  /\ IdleState
  /\ pc = "idle"
  /\ kIn = None
  /\ kOut = None
  /\ ProjIdle
  /\ (InitEngine \/ InitScene)

\* ---------------------------------------------------------------- execute
\* execute, lines 76-105: the settings are copied, the active object is
\* validated, the mirror mesh is built.
Execute ==
  /\ pc = "idle"
  /\ bias' = bias
  /\ biasOne' = BiasDen + bias
  /\ biasNeg' = -bias
  /\ smoothed' = mirrorSmooth
  /\ cull' = cullBackfaces
  /\ closestOnly' = intersectClosest
  /\ onlyIntersecting' = onlyIntersectingVert
  /\ invocations' = invocations + 1
  /\ IF ob_act # "MESH"
     THEN /\ reports' = Append(reports, Report("ERROR", "No mesh selected!", 0))
          /\ pc' = "cancelled"
          /\ obIdx' = obIdx
     ELSE /\ reports' = Append(reports, Report("INFO", "Executing", 0))
          /\ pc' = "objects"
          /\ obIdx' = 1
  /\ UNCHANGED <<propVars, sceneVars, mesh, nonMCount, engineVars, kernelVars, projVars>>

\* execute, lines 108-109: a selected object that is no mesh, or is the
\* active object, is passed over.
SkipObject ==
  /\ pc = "objects"
  /\ obIdx <= Len(selected)
  /\ ~(selected[obIdx].type = "MESH" /\ ~selected[obIdx].active)
  /\ obIdx' = obIdx + 1
  /\ UNCHANGED <<propVars, classVars, sceneVars, pc, mesh, nonMCount, reports,
                 invocations, engineVars, kernelVars, projVars>>

\* execute, lines 111-114, and mirrorMesh, line 143: the bmesh copy and the
\* search data are made.
MirrorMeshBegin ==
  /\ pc = "objects"
  /\ obIdx <= Len(selected)
  /\ selected[obIdx].type = "MESH" /\ ~selected[obIdx].active
  /\ mesh' = selected[obIdx].co
  /\ searchData' = [k \in 1..Len(selected[obIdx].co) |-> NewSearchData]
  /\ i' = 1
  /\ vertQueue' = <<>>
  /\ pc' = "seed"
  /\ UNCHANGED <<propVars, classVars, sceneVars, obIdx, nonMCount, reports,
                 invocations, nonMirrorCount, intersectionTest, caller, kernelVars, projVars>>

\* The edges of the mesh at hand
meshEdges == selected[obIdx].edges

\* --------------------------------------------------------------- mirrorMesh
\* What a step of mirrorMesh leaves: the vertex positions, the search data
\* and the queue
Ok(co, sd, queue) == [kind |-> "ok", mesh |-> co, sd |-> sd, queue |-> queue]
OkQueue(co, q) == Ok(co, q.sd, q.queue)

\* mirrorVert and queueConnectedVerts for vertex vert with the record mData
\* (lines 222-224 and 230-232, and lines 155-158 with line 201)
\* A variant of lines 154-158 and 220-232 that moves the vertex and leaves
\* its search data without the record
moveAndQueueUnrecorded(vert, mData, moved, edges, co, sd, queue, doQueue) ==
  IF moved.kind = "raise" THEN Raise
  ELSE IF doQueue
  THEN OkQueue([co EXCEPT ![vert] = moved.vec],
               queueConnectedVerts(vert, edges, [co EXCEPT ![vert] = moved.vec],
                                   sd, queue))
  ELSE Ok([co EXCEPT ![vert] = moved.vec], sd, queue)
moveAndQueue(vert, mData, moved, edges, co, sd, queue, doQueue) ==
  IF moved.kind = "raise" THEN Raise
  ELSE IF doQueue
  THEN OkQueue([co EXCEPT ![vert] = moved.vec],
               queueConnectedVerts(vert, edges, [co EXCEPT ![vert] = moved.vec],
                                   [sd EXCEPT ![vert].mirrorData = mData], queue))
  ELSE Ok([co EXCEPT ![vert] = moved.vec], [sd EXCEPT ![vert].mirrorData = mData],
          queue)

\* A variant of lines 149-158 that enters mirrorConnected's queueing whatever
\* closestOnly
seedWithQueueing(vert, mData, edges, co, sd) ==
  IF mData.kind = "raise" THEN Raise
  ELSE IF Hit(mData)
  THEN moveAndQueue(vert, mData, mirrorVert(co[vert], mData, FALSE), edges, co, sd,
                    <<>>, TRUE)
  ELSE Ok(co, sd, <<>>)
\* mirrorMesh, lines 149-158, for vertex vert, mData being what findClosestTri
\* left in its search data
seedWith(vert, mData, edges, co, sd) ==
  IF mData.kind = "raise" THEN Raise
  ELSE IF Hit(mData)
  THEN moveAndQueue(vert, mData, mirrorVert(co[vert], mData, FALSE), edges, co, sd,
                    <<>>, ~closestOnly)
  ELSE Ok(co, sd, <<>>)
seedVert(vert, faces, edges, co, sd) ==
  seedWith(vert, findClosestTri(co[vert], faces, sd[vert].mirrorData), edges, co, sd)

\* Variants of lines 216-232 that the claims must tell from the code: one
\* without the branch of line 225, one that takes it whatever onlyIntersecting
connectedWithoutFallback(vert, found, lastTri, edges, co, sd, queue) ==
  IF found.kind = "raise" THEN Raise
  ELSE IF Hit(found)
  THEN moveAndQueue(vert, found, mirrorVert(co[vert], found, FALSE), edges, co, sd,
                    queue, TRUE)
  ELSE Ok(co, sd, queue)
connectedWithFallbackAlways(vert, found, lastTri, edges, co, sd, queue) ==
  IF found.kind = "raise" THEN Raise
  ELSE IF Hit(found)
  THEN moveAndQueue(vert, found, mirrorVert(co[vert], found, FALSE), edges, co, sd,
                    queue, TRUE)
  ELSE moveAndQueue(vert, findDistance(co[vert], lastTri),
                    mirrorVert(co[vert], findDistance(co[vert], lastTri), TRUE),
                    edges, co, sd, queue, TRUE)

\* A variant of lines 216-232 that puts the vertex it could not mirror back
\* into the queue
connectedWithRetry(vert, found, lastTri, edges, co, sd, queue) ==
  IF found.kind = "raise" THEN Raise
  ELSE IF Hit(found)
  THEN moveAndQueue(vert, found, mirrorVert(co[vert], found, FALSE), edges, co, sd,
                    queue, TRUE)
  ELSE IF ~onlyIntersecting
  THEN moveAndQueue(vert, findDistance(co[vert], lastTri),
                    mirrorVert(co[vert], findDistance(co[vert], lastTri), TRUE),
                    edges, co, sd, queue, TRUE)
  ELSE Ok(co, sd, Append(queue, vert))
\* mirrorConnected, lines 216-232, for the dequeued vertex vert, found being
\* what findFirstTri left in its search data and lastTri the triangle of its
\* closest mirrored vertex
connectedWith(vert, found, lastTri, edges, co, sd, queue) ==
  IF found.kind = "raise" THEN Raise
  ELSE IF Hit(found)
  THEN moveAndQueue(vert, found, mirrorVert(co[vert], found, FALSE), edges, co, sd,
                    queue, TRUE)
  ELSE IF ~onlyIntersecting
  THEN moveAndQueue(vert, findDistance(co[vert], lastTri),
                    mirrorVert(co[vert], findDistance(co[vert], lastTri), TRUE),
                    edges, co, sd, queue, TRUE)
  ELSE Ok(co, sd, queue)
\* mirrorConnected, lines 208-232, for the dequeued vertex vert; closeVert 0
\* is None, and closeVert.index raises AttributeError
connectedVert(vert, faces, edges, co, sd, queue, test) ==
  IF mirrored(sd[vert]) THEN Ok(co, sd, queue)
  ELSE IF sd[vert].closeVert = 0 THEN Raise
  ELSE connectedWith(vert,
                     IF test
                     THEN findFirstTri(co[vert],
                                       sd[sd[vert].closeVert].mirrorData.mirrorTri,
                                       faces)
                     ELSE None,
                     sd[sd[vert].closeVert].mirrorData.mirrorTri,
                     edges, co, sd, queue)

\* The step r of mirrorMesh is taken: the mesh, the search data and the
\* queue are as r says; an exception leaves execute with nothing more done.
Taken(r) ==
  IF r.kind = "raise"
  THEN UNCHANGED <<mesh, searchData, vertQueue>>
  ELSE mesh' = r.mesh /\ searchData' = r.sd /\ vertQueue' = r.queue

\* mirrorMesh, lines 146-158: one turn of the loop over the vertices;
\* mirrorConnected is entered (line 201) when the vertex was mirrored.
SeedStep ==
  /\ pc = "seed"
  /\ i <= Len(mesh)
  /\ IF mirrored(searchData[i])
     THEN UNCHANGED <<mesh, searchData, vertQueue, pc, intersectionTest, caller>>
            /\ i' = i + 1
     ELSE \E r \in {seedVert(i, mMeshFaces, meshEdges, mesh, searchData)} :
             /\ Taken(r)
             /\ IF r.kind = "raise"
                THEN pc' = "raised" /\ UNCHANGED <<i, intersectionTest, caller>>
                ELSE IF mirrored(r.sd[i]) /\ ~closestOnly
                THEN /\ pc' = "connected"
                     /\ intersectionTest' = TRUE
                     /\ caller' = "seed"
                     /\ i' = i
                ELSE /\ pc' = pc
                     /\ i' = i + 1
                     /\ UNCHANGED <<intersectionTest, caller>>
  /\ UNCHANGED <<propVars, classVars, sceneVars, obIdx, nonMCount, reports,
                 invocations, nonMirrorCount, kernelVars, projVars>>

\* mirrorMesh, line 146: the loop over the vertices ends.
SeedDone ==
  /\ pc = "seed"
  /\ i > Len(mesh)
  /\ pc' = "count"
  /\ UNCHANGED <<propVars, classVars, sceneVars, obIdx, mesh, nonMCount, reports,
                 invocations, engineVars, kernelVars, projVars>>

\* mirrorConnected, lines 203-232: one vertex is taken from the queue.
ConnectedStep ==
  /\ pc = "connected"
  /\ vertQueue # <<>>
  /\ \E r \in {connectedVert(Head(vertQueue), mMeshFaces, meshEdges, mesh,
                              searchData, Tail(vertQueue), intersectionTest)} :
        /\ Taken(r)
        /\ pc' = IF r.kind = "raise" THEN "raised" ELSE pc
  /\ UNCHANGED <<propVars, classVars, sceneVars, obIdx, nonMCount, reports,
                 invocations, i, nonMirrorCount, intersectionTest, caller, kernelVars, projVars>>

\* mirrorConnected, line 203: the queue is empty, the caller's loop goes on.
ConnectedExit ==
  /\ pc = "connected"
  /\ vertQueue = <<>>
  /\ pc' = caller
  /\ i' = i + 1
  /\ UNCHANGED <<propVars, classVars, sceneVars, obIdx, mesh, nonMCount, reports,
                 invocations, searchData, nonMirrorCount, vertQueue, intersectionTest,
                 caller, kernelVars, projVars>>

\* The number of vertices whose search data is notMirrored
NotMirroredCount(sd) == Cardinality({k \in 1..Len(sd) : notMirrored(sd[k])})

\* mirrorMesh, lines 161-168, and mirrorNonIntersecting, line 179: the count
\* is taken, and the sweep is entered or not.
CountStep ==
  /\ pc = "count"
  /\ nonMirrorCount' = NotMirroredCount(searchData)
  /\ IF closestOnly /\ ~onlyIntersecting /\ nonMirrorCount' > 0
     THEN pc' = "sweep" /\ i' = 1
     ELSE pc' = "returned" /\ i' = i
  /\ UNCHANGED <<propVars, classVars, sceneVars, obIdx, mesh, nonMCount, reports,
                 invocations, searchData, vertQueue, intersectionTest, caller,
                 kernelVars, projVars>>

\* mirrorNonIntersecting, lines 180-182: one turn of its loop;
\* mirrorConnected is entered (line 201) from a mirrored vertex.
SweepStep ==
  /\ pc = "sweep"
  /\ i <= Len(mesh)
  /\ IF mirrored(searchData[i])
     THEN /\ \E r \in {OkQueue(mesh, queueConnectedVerts(i, meshEdges, mesh,
                                                         searchData, <<>>))} : Taken(r)
          /\ pc' = "connected"
          /\ intersectionTest' = FALSE
          /\ caller' = "sweep"
          /\ i' = i
     ELSE /\ i' = i + 1
          /\ UNCHANGED <<pc, mesh, searchData, vertQueue, intersectionTest, caller>>
  /\ UNCHANGED <<propVars, classVars, sceneVars, obIdx, nonMCount, reports,
                 invocations, nonMirrorCount, kernelVars, projVars>>

\* mirrorNonIntersecting, line 180: its loop ends; mirrorMesh returns.
SweepDone ==
  /\ pc = "sweep"
  /\ i > Len(mesh)
  /\ pc' = "returned"
  /\ UNCHANGED <<propVars, classVars, sceneVars, obIdx, mesh, nonMCount, reports,
                 invocations, engineVars, kernelVars, projVars>>

\* execute, lines 114-133: the count is received, the copy is made or not.
ObjectDone ==
  /\ pc = "returned"
  /\ nonMCount' = nonMirrorCount
  /\ IF nonMCount' < Len(mesh)
     THEN /\ created' = Append(created, [of |-> origin[obIdx], co |-> mesh,
                                         edges |-> meshEdges])
          /\ reports' = IF nonMCount' # 0
                        THEN Append(reports, Report("WARNING", "did not intersect",
                                                    nonMCount'))
                        ELSE reports
     ELSE /\ created' = created
          /\ reports' = Append(reports, Report("WARNING", "no mirror created", 0))
  /\ obIdx' = obIdx + 1
  /\ pc' = "objects"
  /\ UNCHANGED <<propVars, classVars, ob_act, mirrorId, selected, source, origin,
                 mesh, invocations, engineVars, kernelVars, projVars>>

\* execute, lines 135-138: every selected object was seen.
Finish ==
  /\ pc = "objects"
  /\ obIdx > Len(selected)
  /\ reports' = Append(reports, Report("INFO", "Finished", 0))
  /\ pc' = "finished"
  /\ UNCHANGED <<propVars, classVars, sceneVars, obIdx, mesh, nonMCount,
                 invocations, engineVars, kernelVars, projVars>>

\* The user selects the copies the operator made, keeps the mirror mesh
\* active and the settings, and invokes the operator again.
Reselect ==
  /\ pc = "finished"
  /\ invocations < MaxInvocations
  /\ created # <<>>
  /\ selected' = [k \in 1..Len(created) |->
                    [type |-> "MESH", active |-> FALSE, co |-> created[k].co,
                     edges |-> created[k].edges]]
  /\ origin' = [k \in 1..Len(created) |-> created[k].of]
  /\ created' = <<>>
  /\ pc' = "idle"
  /\ UNCHANGED <<propVars, classVars, ob_act, mirrorId, source, obIdx, mesh,
                 nonMCount, reports, invocations, engineVars, kernelVars, projVars>>

Next ==
  \/ Execute
  \/ SkipObject
  \/ MirrorMeshBegin
  \/ SeedStep
  \/ SeedDone
  \/ ConnectedStep
  \/ ConnectedExit
  \/ CountStep
  \/ SweepStep
  \/ SweepDone
  \/ ObjectDone
  \/ Finish
  \/ Reselect

Spec == Init /\ [][Next]_vars

\* ------------------------------------------------- the kernels on their own
\* A mirror triangle with legs 10000 and 1, on which the weight v is exactly
\* -0.0001 for a vertex one unit before its short leg (the floating-point
\* product of line 304 is then the double -0.0001); a triangle one of whose
\* vertex normals is perpendicular to its face normal.
LongTri ==
  FlatTri(1, <<1, 2, 3>>,
          << <<MaxGrid,0,0>>, <<MaxGrid + BiasDen,0,0>>, <<MaxGrid,1,0>> >>)
PerpTri ==
  Tri(2, <<4, 5, 6>>, << <<0,0,0>>, <<2,0,0>>, <<0,2,0>> >>,
      <<Up, <<1,0,0>>, Up>>, Up)
\* A triangle of no area whose normals were not updated
CollinearTri ==
  FlatTri(2, <<4, 5, 6>>, << <<0,0,0>>, <<1,1,0>>, <<2,2,0>> >>)
KernelMeshes ==
  { MirrorLib[m] : m \in 1..Len(MirrorLib) }
  \cup { <<LongTri>>, <<MirrorLib[1][1], PerpTri>>, <<MirrorLib[1][1], CollinearTri>> }
KernelPoints ==
  { <<x, y, z>> : x \in -1..MaxGrid, y \in -1..MaxGrid, z \in {-1, 0, 1, 2} }

\* The class attributes after some execute, a vertex position and a mirror
\* mesh; no invocation is under way.
InitKernel ==
  /\ bias = 1
  /\ biasOne = BiasDen + 1
  /\ biasNeg = -1
  /\ smoothed \in BOOLEAN
  /\ cull \in BOOLEAN
  /\ closestOnly = FALSE
  /\ onlyIntersecting = TRUE
  /\ mirrorSmooth = smoothed
  /\ cullBackfaces = cull
  /\ onlyIntersectingVert = onlyIntersecting
  /\ intersectClosest = closestOnly
  /\ biasValue = 1
  /\ ob_act = "MESH"
  /\ mirrorId = 1
  /\ source = <<>>
  /\ selected = <<>>
  /\ origin = <<>>
  /\ IdleState
  /\ pc = "kernel"
  /\ kIn \in [vertCo : KernelPoints, faces : KernelMeshes]
  /\ kOut = None
  /\ ProjIdle

KernelResult(op, k, r) == [kind |-> op, face |-> k, r |-> r]

\* triIntersection is applied to the vertex and one face of the mesh.
ApplyTriIntersection ==
  /\ pc = "kernel"
  /\ kOut = None
  /\ \E k \in 1..Len(kIn.faces) :
       kOut' = KernelResult("triIntersection", k,
                            triIntersection(kIn.vertCo, kIn.faces[k]))
  /\ UNCHANGED <<propVars, classVars, sceneVars, execVars, engineVars, kIn, projVars>>

\* findClosestTri scans the mesh for the vertex, whose record is empty.
ApplyFindClosestTri ==
  /\ pc = "kernel"
  /\ kOut = None
  /\ kOut' = KernelResult("findClosestTri", 0,
                          findClosestTri(kIn.vertCo, kIn.faces, None))
  /\ UNCHANGED <<propVars, classVars, sceneVars, execVars, engineVars, kIn, projVars>>

NextKernel ==
  \/ ApplyTriIntersection
  \/ ApplyFindClosestTri

SpecKernel == InitKernel /\ [][NextKernel]_vars

\* ------------------------------------------------------- projection engine
\* Setting.bias is 0.00001: the bias is kept in units of 1/PBiasDen.
PBiasDen == 100000

\* A face of the target bmesh: corner positions, corner UVs of the active UV
\* layer (as (u, v, 0)), face normal, corner normals
TFace(idx, cos, uvs) ==
  [index |-> idx, co |-> cos, uv |-> uvs, normal |-> Up, vn |-> <<Up, Up, Up>>]
\* Target meshes in the plane z = 0.  1: the square [0,32]x[0,32] in two
\* triangles, its UV map the identity.  2: the same square, the UVs of the
\* second triangle collapsed into one point (UV area 0).
TargetLib ==
  << << TFace(1, << <<0,0,0>>, <<32,0,0>>, <<0,32,0>> >>,
                 << <<0,0,0>>, <<32,0,0>>, <<0,32,0>> >>),
        TFace(2, << <<32,0,0>>, <<32,32,0>>, <<0,32,0>> >>,
                 << <<32,0,0>>, <<32,32,0>>, <<0,32,0>> >>) >>,
     << TFace(1, << <<0,0,0>>, <<32,0,0>>, <<0,32,0>> >>,
                 << <<0,0,0>>, <<32,0,0>>, <<0,32,0>> >>),
        TFace(2, << <<32,0,0>>, <<32,32,0>>, <<0,32,0>> >>,
                 << <<32,0,0>>, <<32,0,0>>, <<32,0,0>> >>) >> >>
\* self.bmesh.faces
targetFaces == TargetLib[target.id]

\* funcs_tri.pointInTriangle(point, a, b, c): the barycentric weights by the
\* dot-product formula, as numerators over den; valid iff every weight is
\* within [-bias, 1 + bias]; a triangle of no area is invalid.
baryValid(u, v, w, den) ==
  \A x \in {u, v, w} :
    /\ x >= -((setting.bias * den) \div PBiasDen)
    /\ x <= den + ((setting.bias * den) \div PBiasDen)
baryOf(den, v, w) ==
  IF den = 0 THEN [valid |-> FALSE, u |-> 0, v |-> 0, w |-> 0, den |-> 1]
  ELSE [valid |-> baryValid(den - v - w, v, w, den),
        u |-> den - v - w, v |-> v, w |-> w, den |-> den]
baryDots(d00, d01, d11, d20, d21) ==
  baryOf(d00 * d11 - d01 * d01, d11 * d20 - d01 * d21, d00 * d21 - d01 * d20)
baryEdges(v0, v1, v2) ==
  baryDots(Dot(v0, v0), Dot(v0, v1), Dot(v1, v1), Dot(v2, v0), Dot(v2, v1))
pointInTriangle(point, a, b, c) ==
  baryEdges(VSub(b, a), VSub(c, a), VSub(point, a))

\* funcs_tri.uv_Area(face, uv_lay) > 0
uvAreaPositive(face) ==
  LET a == VSub(face.uv[2], face.uv[1])
      b == VSub(face.uv[3], face.uv[1])
  IN a[1] * b[2] - a[2] * b[1] # 0
\* funcs_tri.averageTexCoord(face, uvw, uv_lay), averageCo(face, uvw): the
\* corner UVs, or positions, weighted by uvw (times uvw.den)
weighted(p, uvw) ==
  VAdd(VAdd(VScale(uvw.u, p[1]), VScale(uvw.v, p[2])), VScale(uvw.w, p[3]))
averageTexCoord(face, uvw) == VQuot(weighted(face.uv, uvw), uvw.den)

\* bvhtree.BVHTree.ray_cast(origin, -Z, maxDist) on the target: the first
\* face under the origin, the ray being the orthographic camera axis; 0 when
\* the ray meets no face.
ray_cast(from, faces) ==
  LET hit == {k \in 1..Len(faces) :
                LET b == pointInTriangle(<<from[1], from[2], faces[k].co[1][3]>>,
                                         faces[k].co[1], faces[k].co[2], faces[k].co[3])
                IN b.den # 0 /\ b.u >= 0 /\ b.v >= 0 /\ b.w >= 0 /\ b.valid
                   /\ faces[k].co[1][3] <= from[3]}
  IN IF hit = {} THEN 0 ELSE CHOOSE k \in hit : \A j \in hit : k <= j
\* ProjectionData.ray_cast_target(origin): (face, dist, uvw), or
\* (None, None, None)
castWith(from, face, uvw) ==
  IF ~uvw.valid THEN None
  ELSE [kind |-> "hit", face |-> face, dist |-> from[3] - face.co[1][3],
        uvw |-> uvw]
castAt(from, ind) ==
  IF ind = 0 THEN None
  ELSE castWith(from, targetFaces[ind],
                pointInTriangle(<<from[1], from[2], targetFaces[ind].co[1][3]>>,
                                targetFaces[ind].co[1], targetFaces[ind].co[2],
                                targetFaces[ind].co[3]))
ray_cast_target(from) == castAt(from, ray_cast(from, targetFaces))

\* Bounds (bound.py) as an axis-aligned rectangle of the UV map: rotation 0
\* and scalar.xy = (1,1) are the only values of the model, so that rotate and
\* scale change nothing.  From_Corners gives None for a rectangle of no area.
quadArea2(a, b, c, d) ==
  (a[1] * b[2] - b[1] * a[2]) + (b[1] * c[2] - c[1] * b[2])
    + (c[1] * d[2] - d[1] * c[2]) + (d[1] * a[2] - a[1] * d[2])
From_Corners(topL, topR, botR, botL, centerTex, vMin, vMax) ==
  IF quadArea2(topL, topR, botR, botL) = 0 THEN None
  ELSE [kind |-> "bounds", topL |-> topL, topR |-> topR, botR |-> botR,
        botL |-> botL, center |-> centerTex, vMin |-> vMin, vMax |-> vMax]
move(bounds, moveXY) ==
  [bounds EXCEPT !.topL = VAdd(@, moveXY), !.topR = VAdd(@, moveXY),
                 !.botR = VAdd(@, moveXY), !.botL = VAdd(@, moveXY),
                 !.center = VAdd(@, moveXY)]
\* Bounds.calcUVPoint(co): the point of the rectangle at the place co has in
\* the box vMin..vMax; its z is the depth of co
calcUVPoint(bounds, co) ==
  LET ax == VQuot(VScale(co[1] - bounds.vMin[1], VSub(bounds.botR, bounds.botL)),
                  bounds.vMax[1] - bounds.vMin[1])
      ay == VQuot(VScale(co[2] - bounds.vMin[2], VSub(bounds.topL, bounds.botL)),
                  bounds.vMax[2] - bounds.vMin[2])
      p == VAdd(bounds.botL, VAdd(ax, ay))
  IN <<p[1], p[2], co[3]>>

\* funcs_blender.findMinMax(mesh)
Least(S) == CHOOSE x \in S : \A y \in S : x <= y
Most(S) == CHOOSE x \in S : \A y \in S : x >= y
vMinOf(verts) == [c \in 1..3 |-> Least({verts[k][c] : k \in 1..Len(verts)})]
vMaxOf(verts) == [c \in 1..3 |-> Most({verts[k][c] : k \in 1..Len(verts)})]
\* calculateBounds, lines 266-269.  The aligned axis is the identity: the
\* projection type is 'CAMERA' (line 159, axis = cameraAxis) and the camera
\* axes are the world axes, the camera looking down -Z.
cornersOf(vMin, vMax, meshPos) ==
  << VAdd(<<vMin[1], vMax[2], 0>>, meshPos), VAdd(<<vMax[1], vMax[2], 0>>, meshPos),
     VAdd(<<vMax[1], vMin[2], 0>>, meshPos), VAdd(<<vMin[1], vMin[2], 0>>, meshPos) >>

\* A report made through self.warning: its level, its message, the mesh it
\* names and the number of vertices it gives (0 when the message has none)
PReportN(level, what, name, n) == [level |-> level, what |-> what, name |-> name, n |-> n]
PReport(level, what, name) == PReportN(level, what, name, 0)
\* SourceMeshData(bmesh, object, bounds): bmesh is a copy of bmeshSource
SourceMeshData(verts, name, bounds) ==
  [bmeshSource |-> verts,
   bmesh |-> [k \in 1..Len(verts) |->
                [co |-> verts[k], select |-> FALSE, how |-> "source", uvw |-> None]],
   bounds |-> bounds, ob_name |-> name]

\* Powers of 0.5 as divisors: pow(0.5, x) = 1 / Pow2(x)
Pow2(x) == IF x = 0 THEN 1 ELSE IF x = 1 THEN 2 ELSE IF x = 2 THEN 4
           ELSE IF x = 3 THEN 8 ELSE 16
\* traceUVTarget, lines 314-316
trace_pos(corner, centerPos, x) ==
  VAdd(VQuot(VSub(corner, centerPos), Pow2(x)), centerPos)
\* traceUVTarget, lines 319-321
traceResult(tex, centerTex, x) ==
  VAdd(VScale(Pow2(x), VSub(tex, centerTex)), centerTex)
\* traceUVTarget, line 318
traceHitAnyFace(cast) == cast # None
traceHit(cast) == cast # None /\ uvAreaPositive(cast.face)

\* PartitionGrid2D over the UV map of the target (partition_grid.py): square
\* cells of side cellSize over the box of all UV triangles.
cellSize == 16
cellOf(x) == x \div cellSize
uvCorners == UNION {{targetFaces[k].uv[c] : c \in 1..3} : k \in 1..Len(targetFaces)}
gridMin == [c \in 1..2 |-> cellOf(Least({p[c] : p \in uvCorners}))]
gridMax == [c \in 1..2 |-> cellOf(Most({p[c] : p \in uvCorners}) - 1)]
\* The number of cells along the longer side of the grid
gridExtent == Most({gridMax[c] - gridMin[c] + 1 : c \in 1..2})
\* Some ring of radius 0..gridExtent around the cell of uv holds a cell of
\* the grid (every cell of the grids of TargetLib has a triangle registered)
inReach(uv) ==
  \A c \in 1..2 : /\ cellOf(uv[c]) >= gridMin[c] - gridExtent
                  /\ cellOf(uv[c]) <= gridMax[c] + gridExtent

\* PartitionGrid2D.trace_point_uv(uv): (intersect, uvw, face) of the first
\* triangle, in face order, that holds uv in the UV map; face 0 when none
uvContains(face, uv) ==
  pointInTriangle(<<uv[1], uv[2], 0>>, face.uv[1], face.uv[2], face.uv[3])
pointFace(uv) ==
  LET hit == {k \in 1..Len(targetFaces) : uvContains(targetFaces[k], uv).valid}
  IN IF hit = {} THEN 0 ELSE CHOOSE k \in hit : \A j \in hit : k <= j
pointAt(uv, ind) ==
  IF ind = 0 THEN [intersect |-> FALSE, uvw |-> None, face |-> None]
  ELSE [intersect |-> TRUE, uvw |-> uvContains(targetFaces[ind], uv),
        face |-> targetFaces[ind]]
trace_point_uv(uv) == pointAt(uv, pointFace(uv))

\* The point of the edge a-b closest to p, as the weight t of b over den, t
\* clamped into [0, den]
clampTo(x, hi) == IF x < 0 THEN 0 ELSE IF x > hi THEN hi ELSE x
edgeWeight(p, a, b) ==
  IF Dot(VSub(b, a), VSub(b, a)) = 0 THEN [t |-> 0, den |-> 1]
  ELSE [t |-> clampTo(Dot(VSub(p, a), VSub(b, a)), Dot(VSub(b, a), VSub(b, a))),
        den |-> Dot(VSub(b, a), VSub(b, a))]
\* Twice the point of weight ew on the edge a-b (whole numbers for the
\* triangles of TargetLib), and the squared distance of two points
edgePoint2(a, b, ew) ==
  VAdd(VScale(2, a), VQuot(VScale(2 * ew.t, VSub(b, a)), ew.den))
SqDist(p, q) == Dot(VSub(p, q), VSub(p, q))
\* Edge e of a face runs from corner e to corner Succ3(e)
Succ3(e) == IF e = 3 THEN 1 ELSE e + 1
\* Four times the squared distance of p to edge e of the face
edgeDist(face, e, p) ==
  SqDist(VScale(2, p), edgePoint2(face.uv[e], face.uv[Succ3(e)],
                                  edgeWeight(p, face.uv[e], face.uv[Succ3(e)])))
\* The edges of the triangles the ring search meets, each with its distance
closeEdges(p) ==
  {[k |-> k, e |-> e, d |-> edgeDist(targetFaces[k], e, p)] :
     k \in 1..Len(targetFaces), e \in 1..3}
\* The closest of them: the first met among those of least distance
closestOf(C) ==
  CHOOSE c \in C :
    \A o \in C : \/ c.d < o.d
                 \/ c.d = o.d /\ (c.k < o.k \/ (c.k = o.k /\ c.e <= o.e))
\* The clamped barycentric weights of the point of edge e closest to p
edgeUVW(e, ew) ==
  [valid |-> TRUE, den |-> ew.den,
   u |-> IF e = 1 THEN ew.den - ew.t ELSE IF e = 3 THEN ew.t ELSE 0,
   v |-> IF e = 2 THEN ew.den - ew.t ELSE IF e = 1 THEN ew.t ELSE 0,
   w |-> IF e = 3 THEN ew.den - ew.t ELSE IF e = 2 THEN ew.t ELSE 0]
\* PartitionGrid2D.trace_close_uv(uv): (dist, face, edge, uvw) of the
\* triangle closest to uv among those the ring search meets; face None when
\* it meets none
closeResult(p, c) ==
  [dist |-> c.d, face |-> targetFaces[c.k], edge |-> c.e,
   uvw |-> edgeUVW(c.e, edgeWeight(p, targetFaces[c.k].uv[c.e],
                                   targetFaces[c.k].uv[Succ3(c.e)]))]
trace_close_uv(uv) ==
  IF ~inReach(uv) THEN [dist |-> 0, face |-> None, edge |-> 0, uvw |-> None]
  ELSE closeResult(<<uv[1], uv[2], 0>>, closestOf(closeEdges(<<uv[1], uv[2], 0>>)))

\* funcs_tri.averageCo, averageNorm
averageCo(face, uvw) == VQuot(weighted(face.co, uvw), uvw.den)
averageNorm(face, uvw) ==
  IF uvw.u + uvw.v + uvw.w = 0 THEN <<0, 0, 0>>
  ELSE VQuot(weighted(face.vn, uvw), uvw.u + uvw.v + uvw.w)
\* funcs_math.clamp on the three weights
clampUVW(uvw) ==
  [uvw EXCEPT !.u = clampTo(@, uvw.den), !.v = clampTo(@, uvw.den),
              !.w = clampTo(@, uvw.den)]

calcVertProjPoint(face, uvw, depth) ==
  IF setting.smooth
  THEN VAdd(averageCo(face, uvw), VScale(depth + setting.depth, averageNorm(face, uvw)))
  ELSE VAdd(averageCo(face, uvw), VScale(depth + setting.depth, face.normal))
calcVertProjPointClamp(face, uvw, depth) ==
  IF setting.smooth
  THEN VAdd(averageCo(face, uvw),
            VScale(depth + setting.depth, averageNorm(face, clampUVW(uvw))))
  ELSE VAdd(averageCo(face, uvw), VScale(depth + setting.depth, face.normal))

\* A vertex of a working bmesh: position, selection flag, and how the last
\* projectVert placed it (the weights its base point was interpolated from)
PVert(co, select, how, uvw) == [co |-> co, select |-> select, how |-> how, uvw |-> uvw]
\* projectVert(vert, vertSource, bounds): the vertex after the call and the
\* pair (success, partial_success)
projectHit(vert, uv, hit) ==
  [vert |-> PVert(calcVertProjPoint(hit.face, hit.uvw, uv[3] * setting.scalar[3]),
                  FALSE, "hit", hit.uvw),
   success |-> TRUE, partial_success |-> TRUE]
projectCloseAsFull(vert, uv, close) ==
  IF close.face = None
  THEN [vert |-> PVert(vert.co, TRUE, "none", None),
        success |-> FALSE, partial_success |-> FALSE]
  ELSE [vert |-> PVert(calcVertProjPointClamp(close.face, close.uvw,
                                              uv[3] * setting.scalar[3]),
                       TRUE, "close", close.uvw),
        success |-> TRUE, partial_success |-> TRUE]
\* A variant of lines 241-242 that moves the vertex no triangle was found
\* for to its point in UV space
projectCloseMoved(vert, uv, close) ==
  IF close.face = None
  THEN [vert |-> PVert(uv, TRUE, "none", None),
        success |-> FALSE, partial_success |-> FALSE]
  ELSE [vert |-> PVert(calcVertProjPointClamp(close.face, close.uvw,
                                              uv[3] * setting.scalar[3]),
                       TRUE, "close", close.uvw),
        success |-> TRUE, partial_success |-> FALSE]
projectClose(vert, uv, close) ==
  IF close.face = None
  THEN [vert |-> PVert(vert.co, TRUE, "none", None),
        success |-> FALSE, partial_success |-> FALSE]
  ELSE [vert |-> PVert(calcVertProjPointClamp(close.face, close.uvw,
                                              uv[3] * setting.scalar[3]),
                       TRUE, "close", close.uvw),
        success |-> TRUE, partial_success |-> FALSE]
projectWith(vert, uv, point) ==
  IF point.intersect THEN projectHit(vert, uv, point)
  ELSE projectClose(vert, uv, trace_close_uv(uv))
projectUV(vert, uv) == projectWith(vert, uv, trace_point_uv(uv))
projectVert(vert, vertSource, bounds) == projectUV(vert, calcUVPoint(bounds, vertSource))

\* ---------------------------------------------- projection engine: actions
\* The number of runs of projectMeshData on one ProjectionData
MaxRuns == 2

\* Objects of the scene: the active object given as projection target, and
\* the selected objects given to generateSourceData
PObject(name, type, id, uv, verts, location) ==
  [name |-> name, type |-> type, id |-> id, uv |-> uv, verts |-> verts,
   location |-> location]
Targets ==
  {None, PObject("target", "EMPTY", 0, FALSE, <<>>, <<0, 0, 0>>),
   PObject("target", "MESH", 1, FALSE, <<>>, <<0, 0, 0>>),
   PObject("target", "MESH", 1, TRUE, <<>>, <<0, 0, 0>>),
   PObject("target", "MESH", 2, TRUE, <<>>, <<0, 0, 0>>)}
SquareVerts == << <<-16, -16, 0>>, <<16, 16, 0>>, <<0, 0, 1>> >>
LineVerts == << <<-16, 0, 0>>, <<16, 0, 0>>, <<0, 0, 1>> >>
Locations ==
  { <<8, 8, 5>>, <<16, 16, 5>>, <<24, 16, 5>>, <<28, 16, 5>>, <<30, 16, 5>>,
    <<31, 16, 5>>, <<32, 16, 5>>, <<40, 16, 5>> }
Sources ==
  {PObject("square", "MESH", 0, FALSE, SquareVerts, l) : l \in Locations}
    \cup {PObject("cube", "MESH", 0, FALSE, SquareVerts, l) :
            l \in {<<8, 8, 5>>, <<16, 16, 5>>}}
    \cup {PObject("line", "MESH", 0, FALSE, LineVerts, <<16, 16, 5>>),
          PObject("lamp", "LIGHT", 0, FALSE, <<>>, <<16, 16, 5>>),
          PObject("target", "MESH", 1, TRUE, <<>>, <<0, 0, 0>>)}
\* Lists of one or two objects with distinct names
ObLists ==
  {<<a>> : a \in Sources}
    \cup {p \in Sources \X Sources : p[1].name # p[2].name}

\* Setting: the class attributes as declared (lines 36-44), and the values
\* the operator gives them before a run
SettingDefaults ==
  [bias |-> 1, smooth |-> TRUE, scalar |-> <<1, 1, 1>>, moveXY |-> <<0, 0, 0>>,
   depth |-> 0]
\* (a depth other than 0 is given with no move only)
Settings ==
  {st \in [bias : {1}, smooth : BOOLEAN, scalar : {<<1, 1, 1>>},
           moveXY : {<<0, 0, 0>>, <<32, 0, 0>>, <<48, 0, 0>>, <<64, 0, 0>>},
           depth : {0, 1}] :
     st.depth # 0 => st.moveXY = <<0, 0, 0>>}

InitProj ==
  /\ ClassDefaults
  /\ mirrorSmooth = smoothed
  /\ cullBackfaces = cull
  /\ onlyIntersectingVert = onlyIntersecting
  /\ intersectClosest = closestOnly
  /\ biasValue = 1
  /\ ob_act = "NONE"
  /\ mirrorId = 1
  /\ source = <<>>
  /\ selected = <<>>
  /\ origin = <<>>
  /\ IdleState
  /\ pc = "off"
  /\ kIn = None /\ kOut = None
  /\ setting = SettingDefaults
  /\ target \in Targets
  /\ ob_list \in ObLists
  /\ built = {} /\ meshList = <<>> /\ warning = <<>> /\ obOut = <<>>
  /\ ppc = "new" /\ obI = 0 /\ bnd = None /\ mI = 0 /\ runs = 0

\* generateTargetData(object, context)
GenerateTargetData ==
  /\ ppc = "new"
  /\ IF target = None
     THEN /\ warning' = Append(warning, PReport("ERROR", "no active mesh object", ""))
          /\ ppc' = "failed" /\ UNCHANGED <<built, obI>>
     ELSE IF target.type # "MESH"
     THEN /\ warning' = Append(warning, PReport("ERROR", "not a mesh", ""))
          /\ ppc' = "failed" /\ UNCHANGED <<built, obI>>
     ELSE IF ~target.uv
     THEN /\ built' = {"bmesh"}
          /\ warning' = Append(warning, PReport("ERROR", "no active UV layer", ""))
          /\ ppc' = "failed" /\ UNCHANGED obI
     ELSE /\ built' = {"bmesh", "uv_lay", "bvh", "uv_grid"}
          /\ ppc' = "source" /\ obI' = 1 /\ UNCHANGED warning
  /\ UNCHANGED <<setting, target, ob_list, meshList, obOut, bnd, mI, runs, mirrorVars>>

\* generateSourceData, line 137: an object that is no mesh, or is the target
SkipSource ==
  /\ ppc = "source" /\ obI <= Len(ob_list)
  /\ ob_list[obI].type # "MESH" \/ ob_list[obI].name = target.name
  /\ obI' = obI + 1
  /\ UNCHANGED <<setting, target, built, ob_list, meshList, warning, obOut, ppc,
                 bnd, mI, runs, mirrorVars>>

\* createSourceBmesh, lines 169-174, given the bounds calculateBounds returned
createSourceBmeshUnchecked(ob, bounds) == SourceMeshData(ob.verts, ob.name, bounds)
createSourceBmesh(ob, bounds) ==
  IF bounds = None THEN None ELSE SourceMeshData(ob.verts, ob.name, bounds)
\* generateSourceData, lines 139-140
appendData(list, data) == IF data = None THEN list ELSE Append(list, data)

\* createSourceBmesh and calculateBounds up to the loop over the corners
CalculateBounds ==
  /\ ppc = "source" /\ obI <= Len(ob_list)
  /\ ob_list[obI].type = "MESH" /\ ob_list[obI].name # target.name
  /\ LET ob == ob_list[obI]
         cast == ray_cast_target(ob.location)
     IN IF cast = None
        THEN /\ warning' = Append(warning,
                                  PReport("WARNING", "center point did not project", ob.name))
             /\ meshList' = appendData(meshList, createSourceBmesh(ob, None))
             /\ obI' = obI + 1
             /\ UNCHANGED <<ppc, bnd>>
        ELSE /\ bnd' = [kind |-> "calc", i |-> 1, x |-> 0,
                        centerTex |-> averageTexCoord(cast.face, cast.uvw),
                        corners |-> cornersOf(vMinOf(ob.verts), vMaxOf(ob.verts),
                                              ob.location),
                        casts |-> <<>>]
             /\ ppc' = "trace"
             /\ UNCHANGED <<warning, obI, meshList>>
  /\ UNCHANGED <<setting, target, built, ob_list, obOut, mI, runs, mirrorVars>>

\* calculateBounds, lines 286-289, and createSourceBmesh, lines 172-174, with
\* the four corners traced
boundsOf(ob, corners, centerTex) ==
  From_Corners(corners[1], corners[2], corners[3], corners[4], centerTex,
               vMinOf(ob.verts), vMaxOf(ob.verts))
\* One pass of the loop of traceUVTarget for corner bnd.i of the object at
\* hand; the last pass for a corner returns to calculateBounds
TraceUVTarget ==
  /\ ppc = "trace"
  /\ LET ob == ob_list[obI]
         pos == trace_pos(bnd.corners[bnd.i], ob.location, bnd.x)
         cast == ray_cast_target(pos)
         traced == [bnd.corners EXCEPT
                      ![bnd.i] = traceResult(averageTexCoord(cast.face, cast.uvw),
                                             bnd.centerTex, bnd.x)]
     IN IF traceHit(cast)
        THEN IF bnd.i < 4
             THEN /\ bnd' = [bnd EXCEPT !.corners = traced, !.i = @ + 1, !.x = 0,
                                        !.casts = <<>>]
                  /\ UNCHANGED <<ppc, obI, meshList, warning>>
             ELSE /\ bnd' = None /\ ppc' = "source" /\ obI' = obI + 1
                  /\ warning' = IF boundsOf(ob, traced, bnd.centerTex) = None
                                THEN Append(warning,
                                       PReport("WARNING", "projection target area is 0",
                                               ob.name))
                                ELSE warning
                  /\ meshList' = appendData(meshList,
                                    createSourceBmesh(ob, boundsOf(ob, traced, bnd.centerTex)))
        ELSE IF bnd.x < 4
             THEN /\ bnd' = [bnd EXCEPT !.x = @ + 1, !.casts = Append(@, pos)]
                  /\ UNCHANGED <<ppc, obI, meshList, warning>>
             ELSE /\ bnd' = None /\ ppc' = "source" /\ obI' = obI + 1
                  /\ warning' = Append(warning,
                         PReport("WARNING", "could not project onto the target properly",
                                 ob.name))
                  /\ meshList' = appendData(meshList, createSourceBmesh(ob, None))
  /\ UNCHANGED <<setting, target, built, ob_list, obOut, mI, runs, mirrorVars>>

\* generateSourceData, lines 141-142
GenerateSourceDone ==
  /\ ppc = "source" /\ obI > Len(ob_list)
  /\ ppc' = "ready"
  /\ UNCHANGED <<setting, target, built, ob_list, meshList, warning, obOut, obI,
                 bnd, mI, runs, mirrorVars>>

\* An execution of the operator: Setting is set from the operator's
\* properties, then projectMeshData starts (lines 180-182)
ProjectMeshData ==
  /\ ppc = "ready" /\ runs < MaxRuns
  /\ setting' \in Settings
  /\ obOut' = <<>> /\ mI' = 1 /\ runs' = runs + 1 /\ ppc' = "project"
  /\ UNCHANGED <<target, built, ob_list, meshList, warning, obI, bnd, mirrorVars>>

\* projectMeshData, lines 186-191
transformed(bounds) == move(bounds, setting.moveXY)
\* projectMeshData, lines 198-202: projectVert on every vertex
projectAll(meshData) ==
  [k \in 1..Len(meshData.bmesh) |->
     projectVert(meshData.bmesh[k], meshData.bmeshSource[k], transformed(meshData.bounds))]
Count(res, field) == Cardinality({k \in 1..Len(res) : res[k][field]})
\* projectMeshData, line 206: one vertex at least was projected
projectedAlways(count_success) == count_success >= 0
projected(count_success) == count_success > 0
\* A variant of lines 210-214 that gives the number of failed vertices in
\* both warnings
projectReportsFailedOnly(name, blen, count_success, count_partial) ==
  IF projected(count_success)
  THEN (IF blen - count_partial # 0
        THEN <<PReportN("WARNING",
                        "vertices that did not project succesfully and are selected",
                        name, blen - count_success)>>
        ELSE <<>>)
       \o (IF blen - count_success # 0
           THEN <<PReportN("WARNING", "vertices that failed to be projected", name,
                           blen - count_success)>>
           ELSE <<>>)
  ELSE <<PReport("WARNING", "could not be projected", name)>>
\* projectMeshData, lines 210-217
projectReports(name, blen, count_success, count_partial) ==
  IF projected(count_success)
  THEN (IF blen - count_partial # 0
        THEN <<PReportN("WARNING",
                        "vertices that did not project succesfully and are selected",
                        name, blen - count_partial)>>
        ELSE <<>>)
       \o (IF blen - count_success # 0
           THEN <<PReportN("WARNING", "vertices that failed to be projected", name,
                           blen - count_success)>>
           ELSE <<>>)
  ELSE <<PReport("WARNING", "could not be projected", name)>>
\* One pass of the loop of projectMeshData
ProjectMesh ==
  /\ ppc = "project" /\ mI <= Len(meshList)
  /\ IF meshList[mI].bounds = None
     THEN /\ ppc' = "ready"
          /\ UNCHANGED <<meshList, warning, obOut, mI>>
     ELSE \E res \in {projectAll(meshList[mI])} :
          LET bmesh == [k \in 1..Len(res) |-> res[k].vert]
          IN /\ meshList' = [meshList EXCEPT ![mI].bmesh = bmesh]
             /\ obOut' = IF projected(Count(res, "success"))
                         THEN Append(obOut, [name |-> meshList[mI].ob_name, verts |-> bmesh])
                         ELSE obOut
             /\ warning' = warning \o projectReports(meshList[mI].ob_name, Len(res),
                                                      Count(res, "success"),
                                                      Count(res, "partial_success"))
             /\ mI' = mI + 1
             /\ UNCHANGED ppc
  /\ UNCHANGED <<setting, target, built, ob_list, obI, bnd, runs, mirrorVars>>

\* projectMeshData returns with the loop at its end
ProjectDone ==
  /\ ppc = "project" /\ mI > Len(meshList)
  /\ ppc' = "ready"
  /\ UNCHANGED <<setting, target, built, ob_list, meshList, warning, obOut, obI,
                 bnd, mI, runs, mirrorVars>>

NextProj ==
  \/ GenerateTargetData
  \/ SkipSource
  \/ CalculateBounds
  \/ TraceUVTarget
  \/ GenerateSourceDone
  \/ ProjectMeshData
  \/ ProjectMesh
  \/ ProjectDone

SpecProj == InitProj /\ [][NextProj]_vars

\* ------------------------------------------------------------ zUpFindAxis
\* Matrices are given by their columns <<col[0], col[1], col[2]>>.
MaxAxis == 2
Cross(a, b) ==
  <<a[2] * b[3] - a[3] * b[2], a[3] * b[1] - a[1] * b[3], a[1] * b[2] - a[2] * b[1]>>
\* funcs_math.sign, applied to non-zero numbers only
sign(x) == IF x < 0 THEN -1 ELSE 1
Max(a, b) == IF a > b THEN a ELSE b
\* zUpFindAxis, lines 362-370: the mesh axis taken to face the camera
facingAxisXFirst(xDot, yDot, zDot) ==
  IF Abs(xDot) >= Max(Abs(yDot), Abs(zDot)) THEN "X"
  ELSE IF Abs(yDot) >= Abs(zDot) THEN "Y"
  ELSE "Z"
facingAxis(xDot, yDot, zDot) ==
  IF Abs(xDot) > Max(Abs(yDot), Abs(zDot)) THEN "X"
  ELSE IF Abs(yDot) > Abs(zDot) THEN "Y"
  ELSE "Z"
\* zUpFindAxis, lines 361-375
zUpRet(meshAxis, facing, xDot, yDot, zDot) ==
  [facing |-> facing,
   col |-> << IF facing = "X" THEN VScale(sign(xDot), meshAxis[3])
              ELSE IF facing = "Y" THEN meshAxis[1]
              ELSE VScale(-sign(zDot), meshAxis[1]),
              IF facing = "Y" THEN VScale(sign(yDot), meshAxis[3]) ELSE meshAxis[2],
              Cross(meshAxis[1], meshAxis[2]) >>]
zUpDots(meshAxis, xDot, yDot, zDot) ==
  zUpRet(meshAxis, facingAxis(xDot, yDot, zDot), xDot, yDot, zDot)
zUpFindAxis(meshAxis, camAxis) ==
  zUpDots(meshAxis, Dot(meshAxis[1], camAxis[3]), Dot(meshAxis[2], camAxis[3]),
          Dot(meshAxis[3], camAxis[3]))

\* Rotations of a mesh that map the axes onto axes, and camera matrices by
\* their viewing axis col[2] (not normalised)
Units == {<<1, 0, 0>>, <<-1, 0, 0>>, <<0, 1, 0>>, <<0, -1, 0>>, <<0, 0, 1>>, <<0, 0, -1>>}
MeshAxes ==
  {m \in Units \X Units \X Units :
     Dot(m[1], m[2]) = 0 /\ Dot(m[1], m[3]) = 0 /\ Dot(m[2], m[3]) = 0}
CamAxes ==
  {<< <<1, 0, 0>>, <<0, 1, 0>>, v >> :
     v \in {w \in (-MaxAxis..MaxAxis) \X (-MaxAxis..MaxAxis) \X (-MaxAxis..MaxAxis) :
              w # <<0, 0, 0>>}}

InitAxis ==
  /\ ClassDefaults
  /\ mirrorSmooth = smoothed
  /\ cullBackfaces = cull
  /\ onlyIntersectingVert = onlyIntersecting
  /\ intersectClosest = closestOnly
  /\ biasValue = 1
  /\ ob_act = "NONE"
  /\ mirrorId = 1
  /\ source = <<>>
  /\ selected = <<>>
  /\ origin = <<>>
  /\ IdleState
  /\ pc = "off"
  /\ ProjIdle
  /\ kIn \in {[kind |-> "axis", meshAxis |-> m, camAxis |-> c] :
                m \in MeshAxes, c \in CamAxes}
  /\ kOut = None

ApplyZUpFindAxis ==
  /\ kIn.kind = "axis" /\ kOut = None
  /\ kOut' = zUpFindAxis(kIn.meshAxis, kIn.camAxis)
  /\ UNCHANGED <<propVars, classVars, sceneVars, execVars, engineVars, kIn, projVars>>

NextAxis == ApplyZUpFindAxis

SpecAxis == InitAxis /\ [][NextAxis]_vars

\* ------------------------------------------- findFirstTri, step by step
\* Largest number of findFirstTri calls on one mirror mesh in one behaviour.
MaxCalls == 2
FirstMeshes == { MirrorLib[m] : m \in 1..Len(MirrorLib) } \cup { FoldedMesh }
\* Positions of the vertex: over one face, over an edge two faces share,
\* over faces 1 and 5 only, beside every face; above and below the plane.
FirstPoints ==
  { <<p[1], p[2], z>> :
      p \in { <<0, 1>>, <<1, 1>>, <<MaxGrid, 1>>, <<1, MaxGrid>>, <<MaxGrid, MaxGrid>> },
      z \in {-1, 1} }

\* The search is not under way: no face is tagged, no call was made.
FirstIdle ==
  [kind |-> "findFirstTri", at |-> "idle", faceQueue |-> <<>>, tag |-> {},
   taggedFaces |-> <<>>, tested |-> <<>>, r |-> None, calls |-> 0]

InitFirst ==
  /\ bias = 1
  /\ biasOne = BiasDen + 1
  /\ biasNeg = -1
  /\ smoothed = TRUE
  /\ cull \in BOOLEAN
  /\ closestOnly = FALSE
  /\ onlyIntersecting = TRUE
  /\ mirrorSmooth = smoothed
  /\ cullBackfaces = cull
  /\ onlyIntersectingVert = onlyIntersecting
  /\ intersectClosest = closestOnly
  /\ biasValue = 1
  /\ ob_act = "MESH"
  /\ mirrorId = 1
  /\ source = <<>>
  /\ selected = <<>>
  /\ origin = <<>>
  /\ IdleState
  /\ pc = "first"
  /\ kIn \in [kind : {"first"}, faces : FirstMeshes, vertCo : {<<0, 0, 0>>},
              start : {0}, vert : {0}]
  /\ kOut = FirstIdle
  /\ ProjIdle

\* Queue.put_nowait for the faces queueConnectedFaces queues (line 331): a
\* variant that puts them before the faces that wait, and the queue's own
putFacesFirst(queue, more) == more \o queue
putFaces(queue, more) == queue \o more

\* findFirstTri, lines 258-259: a variant that leaves the face the search
\* started from tagged, and the loop of the code
clearTagsButFirst(tag, taggedFaces) == tag \ Range(Tail(taggedFaces))
clearTags(tag, taggedFaces) == tag \ Range(taggedFaces)

\* findFirstTri, lines 240-247: the search begins at face k, the record of
\* the vertex being empty
beginSearch(s, k) ==
  [s EXCEPT !.at = "loop", !.faceQueue = <<k>>, !.tag = @ \cup {k},
            !.taggedFaces = <<k>>, !.tested = <<>>, !.r = None]
\* findFirstTri, lines 240-247, called by mirrorConnected (line 218) for a
\* vertex whose record is empty and a face of the mirror mesh.
FindFirstBegin ==
  /\ pc = "first"
  /\ kIn.vert = 0
  /\ kOut.at \in {"idle", "returned"}
  /\ kOut.calls < MaxCalls
  /\ \E co \in FirstPoints, k \in 1..Len(kIn.faces) :
       /\ kIn' = [kIn EXCEPT !.vertCo = co, !.start = k]
       /\ kOut' = [beginSearch(kOut, k) EXCEPT !.calls = @ + 1]
  /\ UNCHANGED <<propVars, classVars, sceneVars, execVars, engineVars, projVars>>

\* findFirstTri, lines 250-256, for the face taken from the queue: mDat is
\* its intersection, more the faces queueConnectedFaces queues
firstStep(s, face, mDat, more) ==
  IF mDat.kind = "raise"
  THEN [s EXCEPT !.at = "raised", !.faceQueue = Tail(@), !.tested = Append(@, face)]
  ELSE IF Hit(mDat)
  THEN [s EXCEPT !.at = "found", !.faceQueue = Tail(@), !.tested = Append(@, face),
                 !.r = mDat]
  ELSE [s EXCEPT !.faceQueue = putFaces(Tail(@), more),
                 !.tag = @ \cup Range(more),
                 !.taggedFaces = @ \o more,
                 !.tested = Append(@, face)]

\* findFirstTri, lines 249-256: one turn of the loop.
FindFirstStep ==
  /\ pc = "first"
  /\ kOut.at = "loop"
  /\ kOut.faceQueue # <<>>
  /\ kOut' = firstStep(kOut, Head(kOut.faceQueue),
                       triIntersection(kIn.vertCo, kIn.faces[Head(kOut.faceQueue)]),
                       queueConnectedFaces(kIn.faces[Head(kOut.faceQueue)], kIn.faces,
                                           kOut.tag))
  /\ UNCHANGED <<propVars, classVars, sceneVars, execVars, engineVars, kIn, projVars>>

\* findFirstTri, lines 249 and 254, then 258-259: the loop has ended, by the
\* break or with the queue empty; the tags are cleared and the call returns.
FindFirstReturn ==
  /\ pc = "first"
  /\ kOut.at = "found" \/ (kOut.at = "loop" /\ kOut.faceQueue = <<>>)
  /\ kOut' = [kOut EXCEPT !.at = "returned",
                          !.tag = clearTags(@, kOut.taggedFaces)]
  /\ UNCHANGED <<propVars, classVars, sceneVars, execVars, engineVars, kIn, projVars>>

NextFirst ==
  \/ FindFirstBegin
  \/ FindFirstStep
  \/ FindFirstReturn

SpecFirst == InitFirst /\ [][NextFirst]_vars

\* ------------------------- mirrorMesh, with findFirstTri step by step
\* Positions of source vertices over the folded mirror mesh: above face 1,
\* above faces 1 and 5, above face 3, beside every face
FoldedPoints == { <<0, 0, 1>>, <<0, 1, 1>>, <<3, 1, 1>>, <<3, 2, 1>> }
\* One source mesh selected, a mesh active, no face of the mirror mesh
\* tagged: every mode, every mirror mesh, every source mesh with its
\* vertices at the points P or, over the folded mesh, at FoldedPoints.
InitStepsOver(P) ==
  /\ ClassDefaults
  /\ IdleState
  /\ pc = "idle"
  /\ kIn = None
  /\ kOut = FirstIdle
  /\ ProjIdle
  /\ mirrorSmooth \in BOOLEAN
  /\ cullBackfaces \in BOOLEAN
  /\ onlyIntersectingVert \in BOOLEAN
  /\ intersectClosest \in BOOLEAN
  /\ biasValue = 1
  /\ ob_act = "MESH"
  /\ mirrorId \in 1..Len(MirrorMeshes)
  /\ \E m \in IF mirrorId <= Len(MirrorLib) THEN MeshesOver(P)
                ELSE MeshesOver(FoldedPoints) :
       source = <<MeshObject(m)>>
  /\ selected = source
  /\ origin = <<1>>
InitSteps == InitStepsOver(Points)

\* The vertex mirrorConnected has taken from its queue is not mirrored, has a
\* closest mirrored vertex, and is to be tested for an intersection
ToSearch ==
  /\ vertQueue # <<>>
  /\ notMirrored(searchData[Head(vertQueue)])
  /\ searchData[Head(vertQueue)].closeVert # 0
  /\ intersectionTest
\* The triangle recorded for the closest mirrored vertex of vertex v
lastMFace(v) == searchData[searchData[v].closeVert].mirrorData.mirrorTri

\* mirrorConnected, lines 204-218: a vertex is taken from the queue and
\* findFirstTri is entered for it (lines 240-247).
ConnectedFind ==
  /\ pc = "connected"
  /\ ToSearch
  /\ kIn' = [kind |-> "first", faces |-> mMeshFaces, vertCo |-> mesh[Head(vertQueue)],
             start |-> lastMFace(Head(vertQueue)).index, vert |-> Head(vertQueue)]
  /\ kOut' = beginSearch(kOut, lastMFace(Head(vertQueue)).index)
  /\ vertQueue' = Tail(vertQueue)
  /\ pc' = "first"
  /\ UNCHANGED <<propVars, classVars, sceneVars, obIdx, mesh, nonMCount, reports,
                 invocations, searchData, i, nonMirrorCount, intersectionTest, caller,
                 projVars>>

\* mirrorConnected, lines 219-232: findFirstTri has returned, or has raised
\* an exception.
ConnectedFound ==
  /\ pc = "first"
  /\ kIn.vert # 0
  /\ kOut.at \in {"returned", "raised"}
  /\ \E r \in {IF kOut.at = "raised" THEN Raise
                ELSE connectedWith(kIn.vert, kOut.r, lastMFace(kIn.vert), meshEdges,
                                   mesh, searchData, vertQueue)} :
        /\ Taken(r)
        /\ pc' = IF r.kind = "raise" THEN "raised" ELSE "connected"
  /\ kOut' = [kOut EXCEPT !.at = "idle"]
  /\ UNCHANGED <<propVars, classVars, sceneVars, obIdx, nonMCount, reports,
                 invocations, i, nonMirrorCount, intersectionTest, caller, kIn, projVars>>

\* mirrorConnected, lines 204-232, for a vertex taken from the queue that
\* findFirstTri is not called for.
ConnectedOther == ~ToSearch /\ ConnectedStep

NextSteps ==
  \/ Execute
  \/ MirrorMeshBegin
  \/ SeedStep
  \/ SeedDone
  \/ ConnectedFind
  \/ FindFirstStep
  \/ FindFirstReturn
  \/ ConnectedFound
  \/ ConnectedOther
  \/ ConnectedExit
  \/ CountStep
  \/ SweepStep
  \/ SweepDone
  \/ ObjectDone
  \/ Finish

SpecSteps == InitSteps /\ [][NextSteps]_vars

\* The steps that run the kernel (triIntersection, findDistance, mirrorVert,
\* queueConnectedVerts), and the state predicate that one of them is enabled
KernelSteps ==
  \/ SeedStep
  \/ FindFirstStep
  \/ ConnectedFound
  \/ ConnectedOther
  \/ SweepStep
KernelStepLeft ==
  \/ pc \in {"seed", "sweep"} /\ i <= Len(mesh)
  \/ pc = "first" /\ kOut.at = "loop" /\ kOut.faceQueue # <<>>
  \/ pc = "first" /\ kIn.vert # 0 /\ kOut.at \in {"returned", "raised"}
  \/ pc = "connected" /\ vertQueue # <<>> /\ ~ToSearch
\* The other steps
ControlSteps ==
  \/ Execute
  \/ MirrorMeshBegin
  \/ SeedDone
  \/ ConnectedFind
  \/ FindFirstReturn
  \/ ConnectedExit
  \/ CountStep
  \/ SweepDone
  \/ ObjectDone
  \/ Finish
\* Source vertices above the first triangle of every mirror mesh, beside
\* every triangle, and at largeFloat or more from the others
FairPoints == { <<0, 0, 1>>, <<3, 2, 1>>, <<largeFloat + 3, 0, 1>> }
\* The interpreter goes on as long as a statement is left to execute: weak
\* fairness of every step.  For the kernel steps WF_vars(KernelSteps) is
\* written out, with KernelStepLeft for ENABLED <<KernelSteps>>_vars.
FairSteps ==
  /\ InitStepsOver(FairPoints)
  /\ [][NextSteps]_vars
  /\ WF_vars(ControlSteps)
  /\ ([]<>(~KernelStepLeft) \/ []<><<KernelSteps>>_vars)

\* ------------------------------------------------------------------ claims
\* mirrorMesh is under way or has just returned to execute
InMirrorMesh == pc \in {"seed", "connected", "count", "sweep", "returned"}
\* The positions of the vertices of the mesh at hand before mirrorMesh
origCo == selected[obIdx].co
Verts == 1..Len(mesh)
Adjacent(a, b) ==
  \E k \in 1..Len(meshEdges) : meshEdges[k] = <<a, b>> \/ meshEdges[k] = <<b, a>>
\* The vertices joined to a vertex of S by a path of edges
RECURSIVE Component(_)
Component(S) ==
  IF \E a \in S, b \in Verts \ S : Adjacent(a, b)
  THEN Component(S \cup {b \in Verts : \E a \in S : Adjacent(a, b)})
  ELSE S
\* Some mirror triangle validly intersects the position co
DirectHit(co) ==
  \E k \in 1..Len(mMeshFaces) : Hit(triIntersection(co, mMeshFaces[k]))
\* The signed distance of co to the plane of triangle tri
PlaneDistance(co, tri) == Dot(tri.normal, VSub(co, tri.co[1]))
\* co mirrored flat along triangle tri
FlatImage(co, tri) == VAdd(co, VScale(-2 * PlaneDistance(co, tri), tri.normal))
\* Vertex v was mirrored by the flat distance-only fallback
Fallback(v) == mirrored(searchData[v]) /\ ~searchData[v].mirrorData.intersected
\* No mirrored vertex sharing an edge with v is nearer to v than vertex c
NearestMirrored(c, v) ==
  \A u \in Verts :
    Adjacent(u, v) /\ mirrored(searchData[u])
      => ~LenLess(Length(VSub(mesh[u], mesh[v])), Length(VSub(mesh[c], mesh[v])))

\* C1 (as claimed): the count mirrorMesh returns is the number of vertices
\* that are not mirrored when it returns, in every mode.
C1_CountIsNotMirrored ==
  pc = "returned" => nonMirrorCount = NotMirroredCount(searchData)

\* C2: with closestOnly and onlyIntersecting off, when mirrorMesh returns
\* every vertex joined by edges to a vertex with a valid direct intersection
\* is mirrored; a vertex mirrored by the fallback has no valid intersection
\* with any triangle reachable from the triangle of its closest mirrored
\* vertex, which is the nearest mirrored neighbour when it is dequeued, and it
\* is mirrored flat along that triangle; while mirrorConnected runs, every
\* unmirrored neighbour of a mirrored vertex is in the queue.
C2_PropagationReachesConnected ==
  (InMirrorMesh /\ ~closestOnly /\ ~onlyIntersecting) =>
    /\ pc = "returned" =>
         \A v \in Component({w \in Verts : DirectHit(origCo[w])}) :
           mirrored(searchData[v])
    /\ \A v \in Verts : Fallback(v) =>
         LET c == searchData[v].closeVert
             tri == searchData[v].mirrorData.mirrorTri
         IN /\ c # 0 /\ Adjacent(c, v) /\ mirrored(searchData[c])
            /\ tri = searchData[c].mirrorData.mirrorTri
            /\ searchData[v].mirrorData.t = PlaneDistance(origCo[v], tri)
            /\ mesh[v] = FlatImage(origCo[v], tri)
            /\ findFirstTri(origCo[v], tri, mMeshFaces) = None
    /\ pc = "connected" =>
         /\ \A a, b \in Verts :
              Adjacent(a, b) /\ mirrored(searchData[a]) /\ notMirrored(searchData[b])
                => b \in Range(vertQueue)
         /\ \A v \in Range(vertQueue) :
              notMirrored(searchData[v]) /\ searchData[v].closeVert # 0
                => NearestMirrored(searchData[v].closeVert, v)
\* mirrorMesh returned after a vertex mirrored by the fallback passed the
\* propagation on to a vertex that was mirrored by the fallback too
C2_Witness ==
  /\ pc = "returned" /\ ~closestOnly /\ ~onlyIntersecting
  /\ \E v, w \in Verts :
       /\ v # w /\ Fallback(v) /\ Fallback(w)
       /\ searchData[w].closeVert = v
       /\ ~DirectHit(origCo[v]) /\ ~DirectHit(origCo[w])

\* C3 (as claimed): with closestOnly on and onlyIntersecting off, when
\* mirrorMesh returns every vertex joined by edges to a mirrored vertex is
\* mirrored, and the sweep mirrors a dequeued vertex along the triangle
\* recorded for its nearest mirrored neighbour.
C3_SweepUsesNearestNeighbour ==
  (InMirrorMesh /\ closestOnly /\ ~onlyIntersecting) =>
    /\ pc = "returned" =>
         \A v \in Component({w \in Verts : mirrored(searchData[w])}) :
           mirrored(searchData[v])
    /\ (pc = "connected" /\ caller = "sweep") =>
         \A v \in Range(vertQueue) :
           notMirrored(searchData[v]) /\ searchData[v].closeVert # 0 =>
             \E u \in Verts :
               /\ Adjacent(u, v) /\ mirrored(searchData[u])
               /\ NearestMirrored(u, v)
               /\ searchData[u].mirrorData.mirrorTri
                    = searchData[searchData[v].closeVert].mirrorData.mirrorTri

\* C4: with onlyIntersecting on, a mirrored vertex has a record whose triangle
\* validly intersects it, a vertex that is moved is mirrored, the sweep never
\* runs, and when mirrorMesh returns a vertex that no mirror triangle validly
\* intersects is unmirrored, at its original position, and counted.
C4_OnlyIntersectingMovesHits ==
  (InMirrorMesh /\ onlyIntersecting) =>
    /\ pc # "sweep" /\ caller # "sweep"
    /\ \A v \in Verts :
         /\ mirrored(searchData[v]) =>
              /\ searchData[v].mirrorData.intersected
              /\ Hit(triIntersection(origCo[v], searchData[v].mirrorData.mirrorTri))
         /\ mesh[v] # origCo[v] => mirrored(searchData[v])
         /\ notMirrored(searchData[v]) => mesh[v] = origCo[v]
    /\ pc = "returned" =>
         /\ \A v \in Verts : ~DirectHit(origCo[v]) => notMirrored(searchData[v])
         /\ nonMirrorCount = Cardinality({v \in Verts : notMirrored(searchData[v])})
\* mirrorMesh returned with one vertex mirrored and a neighbour of it, which
\* the propagation reached and no triangle intersects, left where it was
C4_Witness ==
  /\ pc = "returned" /\ onlyIntersecting /\ ~closestOnly
  /\ \E v, w \in Verts :
       /\ Adjacent(v, w) /\ mirrored(searchData[v]) /\ notMirrored(searchData[w])
       /\ searchData[w].closeVert = v
       /\ ~DirectHit(origCo[w]) /\ mesh[w] = origCo[w]
  /\ nonMirrorCount >= 1

\* The faces of the mesh at hand that validly intersect the vertex at hand
kT(k) == PlaneDistance(kIn.vertCo, kIn.faces[k])
ValidFaces ==
  {k \in 1..Len(kIn.faces) : Hit(triIntersection(kIn.vertCo, kIn.faces[k]))}
Scanned == kOut.kind = "findClosestTri" /\ kOut.r.kind # "raise"

\* C5: after findClosestTri has scanned the mirror mesh for a vertex, the
\* record kept is the valid intersection of least signed distance t among the
\* triangles that validly intersect the vertex, the first in the order of
\* mirrorMesh.faces among those of equal t; it is empty when there is none.
C5_ClosestIsLeastSignedT ==
  Scanned =>
    IF ValidFaces = {} THEN kOut.r = None
    ELSE \E k \in ValidFaces :
           /\ kOut.r = triIntersection(kIn.vertCo, kIn.faces[k])
           /\ kOut.r.t = kT(k)
           /\ \A j \in ValidFaces : kT(k) <= kT(j) /\ (kT(j) = kT(k) => k <= j)
\* The scan met two valid triangles of equal t and kept the first
C5_Witness ==
  /\ Scanned /\ Hit(kOut.r)
  /\ \E j, k \in ValidFaces :
       j < k /\ kT(j) = kT(k) /\ kOut.r.mirrorTri = kIn.faces[j]

\* C6 (as claimed): no triangle that validly intersects the vertex has a
\* plane nearer to the vertex, in absolute distance, than the triangle that
\* findClosestTri keeps.
C6_ClosestIsLeastAbsoluteT ==
  (Scanned /\ Hit(kOut.r)) =>
    \A j \in ValidFaces : Abs(kOut.r.t) <= Abs(kT(j))

\* The weight num/den, den > 0, is at least, or more than, -bias
AtLeastMinusBias(num, den) == num >= -((bias * den) \div BiasDen)
MoreThanMinusBias(num, den) == num > ((-(bias * den)) \div BiasDen)
Weighed == kOut.kind = "triIntersection" /\ IsData(kOut.r)

ZeroArea(tri) ==
  LET e1 == VSub(tri.co[2], tri.co[1])
      e2 == VSub(tri.co[3], tri.co[1])
  IN Dot(e1, e1) * Dot(e2, e2) = Dot(e1, e2) * Dot(e1, e2)
Perpendicular(tri) == \E k \in 1..3 : Dot(tri.normal, tri.vn[k]) = 0

\* C8 (as claimed): for a triangle of no area, or one whose face normal is
\* perpendicular to one of its vertex normals, triIntersection raises no
\* exception and reports no intersection, and the scan of findClosestTri goes
\* on with the other triangles.
C8_DegenerateGivesNoIntersection ==
  /\ (/\ kOut.kind = "triIntersection"
      /\ ZeroArea(kIn.faces[kOut.face]) \/ Perpendicular(kIn.faces[kOut.face]))
       => kOut.r.kind # "raise" /\ ~Hit(kOut.r)
  /\ kOut.kind = "findClosestTri" => kOut.r.kind # "raise"

\* C9 (as claimed): once execute has copied the settings, MirrorMesh.bias is
\* the biasValue of the invocation, biasNeg its negation and biasOne one more.
C9_BiasIsBiasValue ==
  invocations >= 1 =>
    /\ bias = biasValue
    /\ biasNeg = -biasValue
    /\ biasOne = BiasDen + biasValue

\* Flat mode, culling off, every mirror triangle in one plane
FlatRoundTrip == ~smoothed /\ ~cull /\ FlatMirror(mMeshFaces)

\* C10: in flat mode a mirrored vertex has moved by -2t times the normal of
\* its triangle, which negates its signed distance to the plane (over a
\* triangle at z = 0 with normal (0,0,1) its z coordinate changes sign); with
\* culling off and a flat mirror, the copies made by mirroring the copies of a
\* first invocation have every vertex where the source had it.
C10_FlatMirrorRoundTrip ==
  /\ (pc = "returned" /\ ~smoothed) =>
       \A v \in Verts : mirrored(searchData[v]) =>
         LET tri == searchData[v].mirrorData.mirrorTri
             t == PlaneDistance(origCo[v], tri)
         IN /\ searchData[v].mirrorData.t = t
            /\ mesh[v] = VAdd(origCo[v], VScale(-2 * t, tri.normal))
            /\ Dot(tri.normal, tri.normal) = 1 => PlaneDistance(mesh[v], tri) = -t
            /\ (tri.normal = Up /\ tri.co[1][3] = 0) =>
                 mesh[v] = <<origCo[v][1], origCo[v][2], -origCo[v][3]>>
  /\ (pc = "finished" /\ invocations = 2 /\ FlatRoundTrip) =>
       \A k \in 1..Len(created) : created[k].co = source[created[k].of].co
\* The second invocation finished: a vertex the source has at (0,0,1), which
\* the first invocation put at (0,0,-1), is at (0,0,1) in the copy
C10_Witness ==
  /\ pc = "finished" /\ invocations = 2 /\ FlatRoundTrip
  /\ \E k \in 1..Len(created) : \E v \in 1..Len(created[k].co) :
       /\ source[created[k].of].co[v] = <<0, 0, 1>>
       /\ selected[k].co[v] = <<0, 0, -1>>
       /\ created[k].co[v] = <<0, 0, 1>>


\* C11 (as claimed): when execute finds no active object, or one that is no
\* mesh, it reports one ERROR and ends at once: no class attribute of
\* MirrorMesh (bias, biasOne, biasNeg, smoothed, cull, closestOnly,
\* onlyIntersecting), no mesh and no object of the scene has changed.
C11_AbortBeforeAnyMutation ==
  [][pc' = "cancelled" =>
       /\ UNCHANGED <<classVars, sceneVars, mesh, searchData>>
       /\ reports' = Append(reports, Report("ERROR", "No mesh selected!", 0))]_vars


\* C12 (as claimed): when mirrorMesh has returned for a selected source mesh,
\* execute reports that the mesh does not intersect and creates nothing if no
\* vertex of the mesh is mirrored; otherwise it creates exactly one copy, and
\* reports a warning if and only if some vertex of the mesh is not mirrored;
\* either way it goes on with the next selected object.
C12_PerMeshReport ==
  [][pc = "returned" =>
       /\ pc' = "objects" /\ obIdx' = obIdx + 1
       /\ IF NotMirroredCount(searchData) = Len(mesh)
          THEN /\ created' = created
               /\ reports' = Append(reports, Report("WARNING", "no mirror created", 0))
          ELSE /\ Len(created') = Len(created) + 1
               /\ created'[Len(created')].co = mesh
               /\ (reports' # reports <=> NotMirroredCount(searchData) > 0)
               /\ reports' # reports =>
                    reports' = Append(reports,
                                      Report("WARNING", "did not intersect",
                                             NotMirroredCount(searchData)))]_vars

\* The vertices of a working bmesh the last run placed, by a containing
\* triangle or by the closest one, and those a containing triangle placed
Placed(bmesh) == {k \in 1..Len(bmesh) : bmesh[k].how \in {"hit", "close"}}
FullyPlaced(bmesh) == {k \in 1..Len(bmesh) : bmesh[k].how = "hit"}
\* projectMeshData is about to project mesh mI of meshList
AtMesh == ppc = "project" /\ mI <= Len(meshList)

\* C13: in projectMeshData a mesh none of whose vertices was projected,
\* fully or by the fallback, is reported with the warning 'could not be
\* projected' and gives no output object; a mesh with one such vertex at
\* least gives an output object, and vertices that fell back or failed add
\* warnings only; in either case the loop goes on to the next mesh.
C13_ReportPerProjectedMesh ==
  [][AtMesh =>
       /\ ppc' = "project" /\ mI' = mI + 1
       /\ IF Placed(meshList'[mI].bmesh) = {}
          THEN /\ obOut' = obOut
               /\ warning' = Append(warning, PReport("WARNING", "could not be projected",
                                                     meshList[mI].ob_name))
          ELSE /\ Len(obOut') = Len(obOut) + 1
               /\ obOut'[Len(obOut')].name = meshList[mI].ob_name
               /\ \A k \in Len(warning) + 1..Len(warning') :
                    /\ warning'[k].level = "WARNING"
                    /\ warning'[k].what # "could not be projected"
               /\ Len(warning') > Len(warning)
                    <=> FullyPlaced(meshList'[mI].bmesh) # 1..Len(meshList[mI].bmesh)]_vars
\* Two meshes were projected in one run: the first had no vertex projected,
\* the second had one
C13_Witness ==
  /\ ppc = "project" /\ Len(meshList) = 2 /\ mI = 3
  /\ Placed(meshList[1].bmesh) = {}
  /\ Placed(meshList[2].bmesh) # {}
  /\ Len(obOut) = 1
  /\ \E k \in 1..Len(warning) :
       warning[k] = PReport("WARNING", "could not be projected", meshList[1].ob_name)

\* The weights uvw lie in [0,1] and sum to 1
InUnit(uvw) ==
  /\ \A x \in {uvw.u, uvw.v, uvw.w} : 0 <= x /\ x <= uvw.den
  /\ uvw.u + uvw.v + uvw.w = uvw.den
\* The reports the step under way adds
NewReports == {warning'[k] : k \in Len(warning) + 1..Len(warning')}

Eligible == {j \in 1..Len(ob_list) :
               ob_list[j].type = "MESH" /\ ob_list[j].name # target.name}
\* The warnings about the bounds of the object named name
BoundsWarnings(name) ==
  {k \in 1..Len(warning) :
     /\ warning[k].name = name /\ warning[k].level = "WARNING"
     /\ warning[k].what \in {"center point did not project",
                              "could not project onto the target properly",
                              "projection target area is 0"}}
InMeshList(name) == \E m \in 1..Len(meshList) : meshList[m].ob_name = name
\* The box of the vertices has no width or no height
FlatBox(verts) ==
  vMinOf(verts)[1] = vMaxOf(verts)[1] \/ vMinOf(verts)[2] = vMaxOf(verts)[2]

\* C15: once generateSourceData has returned, every eligible object is either
\* in meshList with bounds and without a warning about its bounds, or left
\* out of meshList with exactly one such warning (its centre did not
\* project, a corner failed its 5 attempts, or the UV area of its bounds is
\* zero); no other object is in meshList, so that projectMeshData finds
\* bounds on every entry and does not stop early.
C15_FailedMeshesAreLeftOut ==
  ppc \in {"ready", "project"} =>
    /\ \A j \in Eligible :
         \/ /\ InMeshList(ob_list[j].name)
            /\ BoundsWarnings(ob_list[j].name) = {}
         \/ /\ ~InMeshList(ob_list[j].name)
            /\ Cardinality(BoundsWarnings(ob_list[j].name)) = 1
            /\ \A k \in BoundsWarnings(ob_list[j].name) :
                 /\ warning[k].what = "center point did not project"
                      <=> ray_cast_target(ob_list[j].location) = None
                 /\ warning[k].what = "projection target area is 0"
                      => FlatBox(ob_list[j].verts)
    /\ Len(meshList) = Cardinality({j \in Eligible : InMeshList(ob_list[j].name)})
    /\ \A m \in 1..Len(meshList) : meshList[m].bounds # None
    /\ ppc = "project" => mI <= Len(meshList) + 1
\* Of two eligible objects the first was left out with a warning, the second
\* is in meshList and projectMeshData has projected it
C15_Witness ==
  /\ ppc = "project" /\ mI = 2
  /\ Eligible = {1, 2}
  /\ ~InMeshList(ob_list[1].name) /\ BoundsWarnings(ob_list[1].name) # {}
  /\ InMeshList(ob_list[2].name) /\ Len(meshList) = 1

\* The point of attempt k for the corner at hand: (corner - center) * 0.5^k
\* + center, the centre being the location of the object
AttemptPoint(k) ==
  LET c == bnd.corners[bnd.i]
      o == ob_list[obI].location
  IN <<(c[1] - o[1]) \div 2^k + o[1], (c[2] - o[2]) \div 2^k + o[2],
       (c[3] - o[3]) \div 2^k + o[3]>>
\* The ray cast from point p hits a face of the target whose UV area is > 0
GoodHit(p) == ray_cast_target(p) # None /\ uvAreaPositive(ray_cast_target(p).face)
\* The UV of the hit of attempt k, its offset from the centre UV multiplied
\* by 1 / 0.5^k
AttemptResult(k) ==
  LET hit == ray_cast_target(AttemptPoint(k))
      tex == averageTexCoord(hit.face, hit.uvw)
  IN <<(tex[1] - bnd.centerTex[1]) * 2^k + bnd.centerTex[1],
       (tex[2] - bnd.centerTex[2]) * 2^k + bnd.centerTex[2],
       (tex[3] - bnd.centerTex[3]) * 2^k + bnd.centerTex[3]>>
TraceFailed ==
  PReport("WARNING", "could not project onto the target properly", ob_list[obI].name)

\* C16: traceUVTarget casts at most 5 rays for a corner, attempt k = 0..4 at
\* (corner - center) * 0.5^k + center in that order, every attempt before
\* the one at hand having failed; the first attempt that hits a face of UV
\* area > 0 ends the loop with that hit's UV offset from the centre UV times
\* 1 / 0.5^k plus the centre UV; the corner fails if and only if all 5
\* attempts fail, and then the mesh is reported and left out of meshList.
C16_CornerRetries ==
  [][ppc = "trace" =>
       /\ bnd.x \in 0..4 /\ Len(bnd.casts) = bnd.x
       /\ \A k \in 1..bnd.x : bnd.casts[k] = AttemptPoint(k - 1) /\ ~GoodHit(bnd.casts[k])
       /\ IF GoodHit(AttemptPoint(bnd.x))
          THEN /\ TraceFailed \notin NewReports
               /\ IF bnd.i < 4
                  THEN /\ ppc' = "trace" /\ bnd'.i = bnd.i + 1 /\ bnd'.x = 0
                       /\ bnd'.corners[bnd.i] = AttemptResult(bnd.x)
                  ELSE /\ ppc' = "source"
                       /\ Len(meshList') = Len(meshList) + 1
                            => meshList'[Len(meshList')].bounds.botL = AttemptResult(bnd.x)
          ELSE IF bnd.x < 4
          THEN /\ ppc' = "trace" /\ bnd'.i = bnd.i /\ bnd'.x = bnd.x + 1
               /\ bnd'.corners = bnd.corners
               /\ UNCHANGED <<warning, meshList>>
          ELSE /\ ppc' = "source" /\ obI' = obI + 1
               /\ warning' = Append(warning, TraceFailed)
               /\ UNCHANGED meshList]_vars
\* Four attempts for a corner have failed and the fifth is about to hit
C16_Witness ==
  /\ ppc = "trace" /\ bnd.x = 4 /\ Len(bnd.casts) = 4
  /\ GoodHit(AttemptPoint(4))

\* The positions a run of projectMeshData under the settings at hand gives
\* the vertices of mesh m when no run was made on the ProjectionData before:
\* the working bmesh is the copy of bmeshSource made by SourceMeshData
FreshRun(m) ==
  projectAll(SourceMeshData(meshList[m].bmeshSource, meshList[m].ob_name,
                            meshList[m].bounds))

\* C17: a run of projectMeshData gives every vertex of a working mesh the
\* position that a run with the same source mesh, target and settings gives
\* it on a ProjectionData on which no earlier run was made.
C17_RunsIndependentOfHistory ==
  [][AtMesh =>
       \A k \in 1..Len(meshList[mI].bmesh) :
         meshList'[mI].bmesh[k].co = FreshRun(mI)[k].vert.co]_vars

\* The magnitudes of the dot products of the mesh axes X, Y, Z with the
\* viewing axis, for the input at hand
AxisDot(a) ==
  Abs(Dot(kIn.meshAxis[CASE a = "X" -> 1 [] a = "Y" -> 2 [] a = "Z" -> 3],
          kIn.camAxis[3]))
Greatest == {a \in {"X", "Y", "Z"} : \A b \in {"X", "Y", "Z"} : AxisDot(a) >= AxisDot(b)}
Rank(a) == CASE a = "X" -> 1 [] a = "Y" -> 2 [] a = "Z" -> 3

\* C18 as stated: zUpFindAxis takes the axis whose dot product with the
\* viewing axis is greatest in magnitude, and of several axes of equal
\* greatest magnitude the first in the order X, Y, Z.
C18_TieGoesToFirstAxis ==
  (kIn.kind = "axis" /\ kOut # None) =>
    /\ kOut.facing \in Greatest
    /\ \A a \in Greatest : Rank(kOut.facing) <= Rank(a)
\* C18 amended: zUpFindAxis takes the axis whose dot product with the viewing
\* axis is greatest in magnitude, and of several axes of equal greatest
\* magnitude the last in the order X, Y, Z; the result is a function of the
\* input.
C18_TieGoesToLastAxis ==
  (kIn.kind = "axis" /\ kOut # None) =>
    /\ kOut.facing \in Greatest
    /\ \A a \in Greatest : Rank(kOut.facing) >= Rank(a)
    /\ kOut = zUpFindAxis(kIn.meshAxis, kIn.camAxis)
\* zUpFindAxis has chosen between X and Y of equal greatest magnitude
C18_Witness ==
  /\ kIn.kind = "axis" /\ kOut # None
  /\ Greatest = {"X", "Y"}

\* Vertex v holds the record of a valid intersection of its own position
\* with a triangle of the mirror mesh
OwnHit(v) ==
  /\ Hit(searchData[v].mirrorData)
  /\ \E k \in 1..Len(mMeshFaces) :
       /\ mMeshFaces[k] = searchData[v].mirrorData.mirrorTri
       /\ searchData[v].mirrorData = triIntersection(origCo[v], mMeshFaces[k])

\* C19: with closestOnly on, mirrorConnected is not entered while the loop
\* over the vertices of mirrorMesh runs: no vertex is queued and no closest
\* vertex recorded before the loop has ended; when it has ended, every
\* vertex that has a valid intersection with some triangle is mirrored with
\* the record of an intersection of its own position, and no other vertex
\* is mirrored.
C19_ClosestOnlySeedsWithoutPropagation ==
  (InMirrorMesh /\ closestOnly) =>
    /\ pc = "connected" => caller = "sweep"
    /\ pc = "seed" =>
         /\ vertQueue = <<>>
         /\ \A v \in Verts : searchData[v].closeVert = 0
         /\ \A v \in Verts : mirrored(searchData[v]) => v < i
    /\ pc = "count" =>
         \A v \in Verts :
           IF DirectHit(origCo[v]) THEN OwnHit(v) ELSE notMirrored(searchData[v])
\* The loop has ended: of two vertices joined by an edge one is mirrored by
\* its own intersection, the other has none and is not mirrored
C19_Witness ==
  /\ pc = "count" /\ closestOnly
  /\ \E a, b \in Verts :
       /\ Adjacent(a, b) /\ OwnHit(a) /\ notMirrored(searchData[b])
       /\ ~DirectHit(origCo[b])

\* C20: whenever mirrorConnected takes from its queue a vertex that is not
\* mirrored yet, in the propagation from the loop over the vertices and in
\* the sweep of mirrorNonIntersecting alike, no mirrored vertex sharing an
\* edge with it is nearer to it than the vertex recorded as its _closeVert.
C20_DequeuedUsesNearestMirrored ==
  (pc = "connected" /\ vertQueue # <<>> /\ notMirrored(searchData[Head(vertQueue)])
     /\ searchData[Head(vertQueue)].closeVert # 0) =>
    /\ mirrored(searchData[searchData[Head(vertQueue)].closeVert])
    /\ Adjacent(searchData[Head(vertQueue)].closeVert, Head(vertQueue))
    /\ NearestMirrored(searchData[Head(vertQueue)].closeVert, Head(vertQueue))

\* The corners of face k, and the faces that share an edge with it
FaceVerts(k) == {kIn.faces[k].v[1], kIn.faces[k].v[2], kIn.faces[k].v[3]}
FaceAdjacent(a, b) == a # b /\ Cardinality(FaceVerts(a) \cap FaceVerts(b)) >= 2
\* The faces within n steps of adjacency of the face the search started from
RECURSIVE Ball(_)
Ball(n) ==
  IF n = 0 THEN {kIn.start}
  ELSE Ball(n - 1) \cup {b \in 1..Len(kIn.faces) : \E a \in Ball(n - 1) : FaceAdjacent(a, b)}
ReachableFaces == Ball(Len(kIn.faces))
FaceLevel(k) == CHOOSE n \in 0..Len(kIn.faces) : k \in Ball(n) /\ \A m \in 0..(n - 1) : k \notin Ball(m)
\* The breadth-first order: the starting face, then for every face of the
\* order in turn, edge by edge, the faces linked to the edge that the order
\* does not hold yet
RECURSIVE NotYet(_, _)
NotYet(cand, seen) ==
  IF cand = <<>> THEN <<>>
  ELSE IF Head(cand) \in seen THEN NotYet(Tail(cand), seen)
  ELSE <<Head(cand)>> \o NotYet(Tail(cand), seen \cup {Head(cand)})
AroundFace(k) ==
  LinkFaces(FaceEdges(kIn.faces[k])[1], kIn.faces)
    \o LinkFaces(FaceEdges(kIn.faces[k])[2], kIn.faces)
    \o LinkFaces(FaceEdges(kIn.faces[k])[3], kIn.faces)
RECURSIVE BfsFrom(_, _)
BfsFrom(order, n) ==
  IF n > Len(order) THEN order
  ELSE BfsFrom(order \o NotYet(AroundFace(order[n]), Range(order)), n + 1)
BfsOrder == BfsFrom(<<kIn.start>>, 1)
FaceHit(k) == Hit(triIntersection(kIn.vertCo, kIn.faces[k]))
FirstReturned == pc = "first" /\ kOut.at = "returned"

\* C21: when findFirstTri returns, the triangles it tested are the first of
\* the breadth-first order from the starting triangle, the starting triangle
\* first, no triangle tested twice and none tested before a triangle nearer
\* to the start in steps of adjacency; the record of the vertex is the
\* intersection with the first triangle of that order that validly
\* intersects it, whatever its distance t, and every triangle before it in
\* the order was tested; the record is empty when no triangle reachable from
\* the start validly intersects the vertex, every one of them having been
\* tested.
C21_FirstInBreadthFirstOrder ==
  FirstReturned =>
    /\ Len(kOut.tested) >= 1 /\ kOut.tested[1] = kIn.start
    /\ Len(kOut.tested) <= Len(BfsOrder)
    /\ \A n \in 1..Len(kOut.tested) : kOut.tested[n] = BfsOrder[n]
    /\ \A m, n \in 1..Len(kOut.tested) :
         m < n => /\ kOut.tested[m] # kOut.tested[n]
                  /\ FaceLevel(kOut.tested[m]) <= FaceLevel(kOut.tested[n])
    /\ Range(BfsOrder) = ReachableFaces
    /\ \A n \in 1..(Len(kOut.tested) - 1) : ~FaceHit(kOut.tested[n])
    /\ IF \E k \in ReachableFaces : FaceHit(k)
       THEN /\ kOut.r = triIntersection(kIn.vertCo,
                                        kIn.faces[kOut.tested[Len(kOut.tested)]])
            /\ Hit(kOut.r)
       ELSE kOut.r = None /\ Range(kOut.tested) = ReachableFaces
    /\ kOut.r = findFirstTri(kIn.vertCo, kIn.faces[kIn.start], kIn.faces)
\* The search returned with the third triangle of the order, having passed
\* from the start to a face next to it and on to a face of the same level,
\* while a triangle further on in the order validly intersects the vertex
\* at a smaller distance t
C21_Witness ==
  /\ FirstReturned /\ Hit(kOut.r) /\ Len(kOut.tested) = 3
  /\ FaceLevel(kOut.tested[3]) = 1
  /\ \E k \in ReachableFaces \ Range(kOut.tested) :
       /\ FaceHit(k)
       /\ PlaneDistance(kIn.vertCo, kIn.faces[k]) < kOut.r.t

\* The vertices of a working bmesh the last projectVert placed in the way how
Outcome(bmesh, how) == {k \in 1..Len(bmesh) : bmesh[k].how = how}
\* What projectVert returns for vertex k of the mesh at hand
ReturnOf(k) ==
  projectVert(meshList[mI].bmesh[k], meshList[mI].bmeshSource[k],
              transformed(meshList[mI].bounds))
\* The warnings with the numbers a and b, each left out when its number is 0
CountWarnings(name, a, b) ==
  (IF a # 0
   THEN <<PReportN("WARNING", "vertices that did not project succesfully and are selected",
                   name, a)>>
   ELSE <<>>)
  \o (IF b # 0
      THEN <<PReportN("WARNING", "vertices that failed to be projected", name, b)>>
      ELSE <<>>)

\* C22: when projectMeshData projects a mesh, projectVert returns for every
\* vertex one of (True, True), a containing triangle having placed it,
\* (True, False), the closest triangle having placed it, and (False, False),
\* no triangle having been found; if the mesh is put out, the reports added
\* are the warning about vertices that did not project successfully with
\* the number of vertices of the last two kinds, if that number is not 0,
\* and then the warning about vertices that failed with the number of
\* vertices of the last kind, if that number is not 0.
C22_CountsOfTheThreeOutcomes ==
  [][(AtMesh /\ meshList[mI].bounds # None) =>
       LET bmesh == meshList'[mI].bmesh
           name == meshList[mI].ob_name
       IN /\ \A k \in 1..Len(bmesh) :
               /\ bmesh[k].how \in {"hit", "close", "none"}
               /\ \A r \in {ReturnOf(k)} :
                    <<r.success, r.partial_success>>
                      = IF bmesh[k].how = "hit" THEN <<TRUE, TRUE>>
                        ELSE IF bmesh[k].how = "close" THEN <<TRUE, FALSE>>
                        ELSE <<FALSE, FALSE>>
          /\ Len(obOut') > Len(obOut) =>
               warning' = warning \o
                 CountWarnings(name,
                               Cardinality(Outcome(bmesh, "close") \cup Outcome(bmesh, "none")),
                               Cardinality(Outcome(bmesh, "none")))]_vars
\* A mesh was put out whose three vertices had the three outcomes: the
\* first warning gives 2, the second 1
C22_Witness ==
  /\ ppc = "project" /\ mI = 2 /\ Len(obOut) = 1
  /\ \A h \in {"hit", "close", "none"} : Outcome(meshList[1].bmesh, h) # {}
  /\ Len(warning) >= 2
  /\ warning[Len(warning) - 1].n = 2 /\ warning[Len(warning)].n = 1
  /\ warning[Len(warning)].what = "vertices that failed to be projected"

\* ------------------------------------------------------------------ C23
\* The vertices whose record is empty in sd
Unmirrored(sd) == {v \in 1..Len(sd) : notMirrored(sd[v])}
\* No face stands twice in the sequence q
NoFaceTwice(q) == \A a, b \in 1..Len(q) : q[a] = q[b] => a = b
\* mirrorConnected is not running
OutsideConnected ==
  pc \in {"idle", "objects", "seed", "count", "sweep", "returned", "finished", "cancelled"}
\* The loops of mirrorMesh, of mirrorConnected and of findFirstTri end, by a
\* return or by an exception
LoopsEnd ==
  /\ (pc = "seed") ~> (pc \in {"returned", "raised"})
  /\ (pc = "sweep") ~> (pc \in {"returned", "raised"})
  /\ (pc = "connected") ~> (pc \in {"seed", "sweep", "raised"})
  /\ (pc = "first") ~> (pc \in {"connected", "raised"})
\* A vertex is put into the queue only in a step that mirrors a vertex, or
\* at line 201 for a vertex that mirrorNonIntersecting found mirrored
QueuedOnlyWhenMirrored ==
  [][Len(vertQueue') > Len(vertQueue)
       => \/ Unmirrored(searchData') # Unmirrored(searchData)
          \/ pc = "sweep"]_vars

UVOf(k) == calcUVPoint(transformed(meshList[mI].bounds), meshList[mI].bmeshSource[k])
\* No triangle of the target contains the point uv and none is its closest
NoTriangle(uv) == ~trace_point_uv(uv).intersect /\ trace_close_uv(uv).face = None
\* The unpolluted positions of the meshes of the list
Unpolluted(list) == [m \in 1..Len(list) |-> list[m].bmeshSource]

\* C24: when projectMeshData projects a mesh, a vertex for which projectVert
\* finds neither a containing nor a closest triangle keeps the position it
\* had in the working bmesh and projectVert returns (False, False) for it;
\* the positions in bmeshSource, of this mesh and of every other, stay as
\* they are.
C24_FailedVertexStaysSourceUntouched ==
  [][(AtMesh /\ meshList[mI].bounds # None) =>
       /\ \A k \in 1..Len(meshList[mI].bmesh) :
            NoTriangle(UVOf(k)) =>
              /\ meshList'[mI].bmesh[k].co = meshList[mI].bmesh[k].co
              /\ \A r \in {ReturnOf(k)} : ~r.success /\ ~r.partial_success
       /\ Unpolluted(meshList') = Unpolluted(meshList)]_vars
\* In a second run no triangle was found for a vertex that the first run
\* had projected: it is where the first run put it, not at its source
C24_Witness ==
  /\ ppc = "project" /\ mI = 2 /\ runs = 2
  /\ \E k \in 1..Len(meshList[1].bmesh) :
       /\ meshList[1].bmesh[k].how = "none"
       /\ meshList[1].bmesh[k].co # meshList[1].bmeshSource[k]

\* ------------------------------------------------------------------ C25
\* mirrorMesh is running, between two turns of its loops or of the loops of
\* mirrorConnected and findFirstTri
InRun == pc \in {"seed", "connected", "first", "count", "sweep", "returned"}
\* Where mirrorVert puts a vertex that stands at co, by the record rec: flat
\* for the record of findDistance, by the mode for an intersection
ImageBy(co, rec) == mirrorVert(co, rec, ~rec.intersected).vec
\* Every vertex is at its original position if its record is empty, and at
\* the image of its original position by its record if not
MovedOnceOrNot ==
  \A v \in Verts :
    IF notMirrored(searchData[v]) THEN mesh[v] = origCo[v]
    ELSE mesh[v] = ImageBy(origCo[v], searchData[v].mirrorData)
\* A step leaves the record and the position of a vertex alone if the vertex
\* is mirrored; a vertex is moved in the step that records its mirror data
\* and in no other
RecordedWhenMoved ==
  \A v \in Verts :
    /\ mirrored(searchData[v]) =>
         /\ searchData'[v].mirrorData = searchData[v].mirrorData
         /\ mesh'[v] = mesh[v]
    /\ notMirrored(searchData[v]) /\ notMirrored(searchData'[v]) => mesh'[v] = mesh[v]
    /\ notMirrored(searchData[v]) /\ mirrored(searchData'[v]) =>
         mesh'[v] = ImageBy(mesh[v], searchData'[v].mirrorData)

C26_CloseVertIsSet ==
  (pc = "connected" /\ vertQueue # <<>> /\ notMirrored(searchData[Head(vertQueue)])) =>
    \E c \in Verts :
      /\ searchData[Head(vertQueue)].closeVert = c
      /\ Adjacent(c, Head(vertQueue))
      /\ mirrored(searchData[c])
      /\ \E k \in 1..Len(mMeshFaces) : searchData[c].mirrorData.mirrorTri = mMeshFaces[k]

\* ------------------------------------------------------------------ C27
\* findFirstTri is between its first statement and its last
Searching == pc = "first" /\ kOut.at \in {"loop", "found", "raised"}
\* The step enters findFirstTri, and the step returns from it
FirstCalled == pc = "connected" /\ pc' = "first"
FirstReturns == pc = "first" /\ kOut.at \in {"loop", "found"} /\ kOut'.at = "returned"

\* C27: a findFirstTri call that no face of the mirror mesh was tagged
\* before leaves no face tagged when it returns, whether it found an
\* intersecting triangle or took every face it could reach from its queue;
\* so no face is tagged while mirrorMesh runs outside findFirstTri.  The
\* faces findFirstTri is given are those of the mirror mesh, and no step of
\* mirrorMesh changes the mirror mesh: its faces keep their vertex positions
\* and their normals.
C27_MirrorMeshLeftAsItWas ==
  /\ [][FirstCalled => kOut.tag = {} /\ kIn'.faces = mMeshFaces]_vars
  /\ [][FirstReturns => kOut'.tag = {} /\ kOut'.r = kOut.r]_vars
  /\ [](InRun /\ ~Searching => kOut.tag = {})
  /\ [][InRun /\ InRun' => mMeshFaces' = mMeshFaces /\ (pc' = "first" => kIn'.faces = mMeshFaces)]_vars
\* findFirstTri has returned for a vertex of the source mesh without an
\* intersection, having tagged and tested all five faces of the folded mesh:
\* none is tagged
C27_Witness ==
  /\ pc = "first" /\ kIn.vert # 0 /\ kOut.at = "returned"
  /\ ~Hit(kOut.r)
  /\ Len(kOut.taggedFaces) = 5 /\ Len(kOut.tested) = 5
  /\ kOut.tag = {}
====
